---- MODULE Spec2Model ----
(***************************************************************************)
(* A model of EnergyPlus' indoor ice rink module                           *)
(* (src/src/EnergyPlus/IndoorIceRink.cc, IndoorIceRink.hh).                *)
(*                                                                         *)
(* Real64 values are modelled as decimal floating point numbers <<m, e>>   *)
(* standing for m * 10^e, with a four digit mantissa (1000 <= |m| <= 9999, *)
(* or <<0, 0>> for zero).  Every arithmetic operation rounds its exact     *)
(* result to four digits, as IEEE arithmetic rounds to 53 bits.            *)
(***************************************************************************)
EXTENDS Integers, Naturals, Sequences, FiniteSets, TLC

(***************************************************************************)
(* Real64 arithmetic                                                       *)
(***************************************************************************)
Abs(x) == IF x < 0 THEN -x ELSE x

Sign(x) == IF x < 0 THEN -1 ELSE IF x > 0 THEN 1 ELSE 0

RECURSIVE Pow10(_)
Pow10(n) == IF n <= 0 THEN 1 ELSE 10 * Pow10(n - 1)

RECURSIVE Norm(_, _)
Norm(m, e) ==
    IF m = 0 THEN <<0, 0>>
    ELSE IF Abs(m) >= 10000 THEN Norm(Sign(m) * ((Abs(m) + 5) \div 10), e + 1)
    ELSE IF Abs(m) < 1000 THEN Norm(m * 10, e - 1)
    ELSE <<m, e>>

R(m, e) == Norm(m, e)

Zero == <<0, 0>>

One == <<1000, -3>>

Neg(a) == <<-a[1], a[2]>>

Add(a, b) ==
    IF a[1] = 0 THEN b
    ELSE IF b[1] = 0 THEN a
    ELSE IF a[2] >= b[2]
         THEN IF a[2] - b[2] > 5 THEN a
              ELSE Norm(a[1] * Pow10(a[2] - b[2]) + b[1], b[2])
         ELSE IF b[2] - a[2] > 5 THEN b
              ELSE Norm(b[1] * Pow10(b[2] - a[2]) + a[1], a[2])

Sub(a, b) == Add(a, Neg(b))

Mul(a, b) == Norm(a[1] * b[1], a[2] + b[2])

\* A nonzero number divided by zero is an infinity with the sign of the dividend.
Div(a, b) ==
    IF b[1] = 0 /\ a[1] # 0 THEN <<Sign(a[1]) * 1000, 300>>
    ELSE Norm(Sign(a[1]) * Sign(b[1]) * ((Abs(a[1]) * 100000) \div Abs(b[1])),
              a[2] - b[2] - 5)

Lt(a, b) == Sub(a, b)[1] < 0

Le(a, b) == Sub(a, b)[1] <= 0

Gt(a, b) == Lt(b, a)

Ge(a, b) == Le(b, a)

\* The integer part of a non-negative Real64 below 10^5.
Floor(a) ==
    IF a[1] <= 0 THEN 0
    ELSE IF a[2] >= 0 THEN a[1] * Pow10(a[2])
    ELSE a[1] \div Pow10(-a[2])

RECURSIVE PowInt(_, _)
PowInt(a, k) == IF k <= 0 THEN One ELSE Mul(a, PowInt(a, k - 1))

\* e and ln 2, ln 10 to four digits.
EulerE == R(2718, -3)

Ln2 == R(6931, -4)

Ln10 == R(2303, -3)

\* e^f for 0 <= f < 1: the Taylor series to the seventh power.
ExpFrac(f) ==
    LET f2 == Mul(f, f)
        f3 == Mul(f2, f)
        f4 == Mul(f3, f)
        f5 == Mul(f4, f)
        f6 == Mul(f5, f)
        f7 == Mul(f6, f)
        t2 == Div(f2, R(2, 0))
        t3 == Div(f3, R(6, 0))
        t4 == Div(f4, R(24, 0))
        t5 == Div(f5, R(120, 0))
        t6 == Div(f6, R(720, 0))
        t7 == Div(f7, R(5040, 0))
    IN  Add(One, Add(f, Add(t2, Add(t3, Add(t4, Add(t5, Add(t6, t7)))))))

\* e^k for a natural number k: (e^10)^(k div 10) * e^(k mod 10).
ExpInt(k) == Mul(PowInt(PowInt(EulerE, 10), k \div 10), PowInt(EulerE, k % 10))

\* std::exp for |x| < 10^4.
Exp(x) ==
    IF x[1] >= 0
    THEN LET k == Floor(x) IN Mul(ExpInt(k), ExpFrac(Sub(x, R(k, 0))))
    ELSE LET y == Neg(x)
             k == Floor(y)
         IN  Div(One, Mul(ExpInt(k), ExpFrac(Sub(y, R(k, 0)))))

\* ln z for 1 <= z < 2: 2 * atanh((z - 1) / (z + 1)).
LnUnit(z) ==
    LET u  == Div(Sub(z, One), Add(z, One))
        u2 == Mul(u, u)
        u3 == Mul(u2, u)
        u5 == Mul(u3, u2)
        u7 == Mul(u5, u2)
    IN  Mul(R(2, 0), Add(u, Add(Div(u3, R(3, 0)), Add(Div(u5, R(5, 0)), Div(u7, R(7, 0))))))

RECURSIVE LnSmall(_)
\* ln y for 1 <= y < 10.
LnSmall(y) == IF Ge(y, R(2, 0)) THEN Add(Ln2, LnSmall(Div(y, R(2, 0)))) ELSE LnUnit(y)

\* The natural logarithm of x > 0.
Ln(x) == Add(LnSmall(<<x[1], -3>>), Mul(R(x[2] + 3, 0), Ln10))

\* std::pow(x, p) for x > 0.
Pow(x, p) == Exp(Mul(p, Ln(x)))

(***************************************************************************)
(* Property tables of CalcDRinkHXEffectTerm, BOTC and CalcIRinkHXEffectTerm *)
(***************************************************************************)
NumOfPropDivisions == 11

NumOfTempDivisions == 11

\* Temps (direct) and Temperatures (indirect): the same grid, -10 C to 0 C.
Temps ==
    <<R(-1, 1), R(-9, 0), R(-8, 0), R(-7, 0), R(-6, 0), R(-5, 0), R(-4, 0), R(-3, 0), R(-2, 0),
      R(-1, 0), R(0, -2)>>

Mu ==
    <<R(1903, -7), R(1881, -7), R(186, -6), R(1839, -7), R(1818, -7), R(1798, -7), R(1778, -7),
      R(1759, -7), R(174, -6), R(1721, -7), R(1702, -7)>>

Conductivity ==
    <<R(5902, -4), R(5871, -4), R(584, -3), R(5809, -4), R(5778, -4), R(5747, -4), R(5717, -4),
      R(5686, -4), R(5655, -4), R(5625, -4), R(5594, -4)>>

Pr ==
    <<R(1471, -3), R(1464, -3), R(1456, -3), R(1449, -3), R(1442, -3), R(1436, -3),
      R(1429, -3), R(1423, -3), R(1416, -3), R(141, -2), R(1404, -3)>>

Cp ==
    <<R(4563, 0), R(4568, 0), R(4573, 0), R(4578, 0), R(4583, 0), R(4589, 0), R(4594, 0),
      R(4599, 0), R(4604, 0), R(461, 1), R(4615, 0)>>

\* The brine tables: one row of eleven temperatures per concentration 25% .. 30%,
\* row c - 24 holding the source's <name>_C<c>.
ConductivityCacl2 ==
    << <<R(5253, -4), R(5267, -4), R(5281, -4), R(5296, -4), R(531, -3), R(5324, -4),
         R(5338, -4), R(5352, -4), R(5366, -4), R(5381, -4), R(5395, -4)>>,
       <<R(524, -3), R(5254, -4), R(5268, -4), R(5283, -4), R(5297, -4), R(5311, -4),
         R(5325, -4), R(5339, -4), R(5353, -4), R(5367, -4), R(5381, -4)>>,
       <<R(5227, -4), R(5241, -4), R(5255, -4), R(5269, -4), R(5284, -4), R(5298, -4),
         R(5312, -4), R(5326, -4), R(534, -3), R(5354, -4), R(5368, -4)>>,
       <<R(5214, -4), R(5228, -4), R(5242, -4), R(5256, -4), R(527, -3), R(5285, -4),
         R(5299, -4), R(5313, -4), R(5327, -4), R(5341, -4), R(5355, -4)>>,
       <<R(5201, -4), R(5215, -4), R(5229, -4), R(5243, -4), R(5258, -4), R(5272, -4),
         R(5286, -4), R(53, -2), R(5314, -4), R(5328, -4), R(5342, -4)>>,
       <<R(5189, -4), R(5203, -4), R(5217, -4), R(5231, -4), R(5245, -4), R(5259, -4),
         R(5273, -4), R(5287, -4), R(5301, -4), R(5315, -4), R(5329, -4)>> >>

MuCacl2 ==
    << <<R(553, -5), R(5353, -6), R(5184, -6), R(5023, -6), R(4869, -6), R(4722, -6),
         R(4582, -6), R(4447, -6), R(4319, -6), R(4197, -6), R(4079, -6)>>,
       <<R(5854, -6), R(5665, -6), R(5485, -6), R(5314, -6), R(5151, -6), R(4995, -6),
         R(4847, -6), R(4705, -6), R(4569, -6), R(444, -5), R(4316, -6)>>,
       <<R(6217, -6), R(6015, -6), R(5823, -6), R(5641, -6), R(5467, -6), R(5301, -6),
         R(5143, -6), R(4992, -6), R(4848, -6), R(471, -5), R(4579, -6)>>,
       <<R(6627, -6), R(641, -5), R(6204, -6), R(6007, -6), R(5821, -6), R(5643, -6),
         R(5474, -6), R(5313, -6), R(5159, -6), R(5012, -6), R(4872, -6)>>,
       <<R(7093, -6), R(6858, -6), R(6635, -6), R(6423, -6), R(6221, -6), R(603, -5),
         R(5848, -6), R(5674, -6), R(5509, -6), R(5351, -6), R(52, -4)>>,
       <<R(7627, -6), R(737, -5), R(7127, -6), R(6896, -6), R(6677, -6), R(6469, -6),
         R(6272, -6), R(6084, -6), R(5905, -6), R(5734, -6), R(5572, -6)>> >>

PrCacl2 ==
    << <<R(2987, -2), R(2887, -2), R(2791, -2), R(27, 0), R(2613, -2), R(2531, -2),
         R(2452, -2), R(2376, -2), R(2304, -2), R(2235, -2), R(2169, -2)>>,
       <<R(3135, -2), R(3029, -2), R(2928, -2), R(2832, -2), R(2741, -2), R(2654, -2),
         R(2571, -2), R(2492, -2), R(2416, -2), R(2344, -2), R(2275, -2)>>,
       <<R(3302, -2), R(319, -1), R(3083, -2), R(2982, -2), R(2885, -2), R(2793, -2),
         R(2705, -2), R(2622, -2), R(2542, -2), R(2466, -2), R(2393, -2)>>,
       <<R(3493, -2), R(3373, -2), R(3259, -2), R(3151, -2), R(3048, -2), R(295, -1),
         R(2857, -2), R(2768, -2), R(2683, -2), R(2603, -2), R(2526, -2)>>,
       <<R(371, -1), R(3581, -2), R(3458, -2), R(3342, -2), R(3232, -2), R(3127, -2),
         R(3027, -2), R(2933, -2), R(2842, -2), R(2756, -2), R(2674, -2)>>,
       <<R(3959, -2), R(3819, -2), R(3686, -2), R(356, -1), R(3441, -2), R(3328, -2),
         R(322, -1), R(3118, -2), R(3021, -2), R(2929, -2), R(2841, -2)>> >>

CpCacl2 ==
    << <<R(2837, 0), R(284, 1), R(2844, 0), R(2847, 0), R(285, 1), R(2853, 0), R(2856, 0),
         R(2859, 0), R(2863, 0), R(2866, 0), R(2869, 0)>>,
       <<R(2806, 0), R(2809, 0), R(2812, 0), R(2815, 0), R(2819, 0), R(2822, 0), R(2825, 0),
         R(2828, 0), R(2831, 0), R(2834, 0), R(2837, 0)>>,
       <<R(2777, 0), R(278, 1), R(2783, 0), R(2786, 0), R(2789, 0), R(2792, 0), R(2794, 0),
         R(2797, 0), R(28, 2), R(2803, 0), R(2806, 0)>>,
       <<R(2748, 0), R(2751, 0), R(2754, 0), R(2757, 0), R(276, 1), R(2762, 0), R(2765, 0),
         R(2768, 0), R(2771, 0), R(2774, 0), R(2776, 0)>>,
       <<R(2721, 0), R(2723, 0), R(2726, 0), R(2729, 0), R(2731, 0), R(2734, 0), R(2736, 0),
         R(2739, 0), R(2742, 0), R(2744, 0), R(2747, 0)>>,
       <<R(2693, 0), R(2696, 0), R(2698, 0), R(27, 2), R(2703, 0), R(2705, 0), R(2708, 0),
         R(271, 1), R(2712, 0), R(2715, 0), R(2717, 0)>> >>

ConductivityEG ==
    << <<R(4538, -4), R(4549, -4), R(456, -3), R(4571, -4), R(4582, -4), R(4593, -4),
         R(4604, -4), R(4615, -4), R(4626, -4), R(4637, -4), R(4648, -4)>>,
       <<R(4502, -4), R(4513, -4), R(4524, -4), R(4535, -4), R(4546, -4), R(4557, -4),
         R(4567, -4), R(4578, -4), R(4589, -4), R(4599, -4), R(461, -3)>>,
       <<R(4467, -4), R(4478, -4), R(4488, -4), R(4499, -4), R(4509, -4), R(452, -3),
         R(453, -3), R(4541, -4), R(4551, -4), R(4562, -4), R(4572, -4)>>,
       <<R(4432, -4), R(4442, -4), R(4452, -4), R(4463, -4), R(4473, -4), R(4483, -4),
         R(4493, -4), R(4504, -4), R(4514, -4), R(4524, -4), R(4534, -4)>>,
       <<R(4397, -4), R(4407, -4), R(4417, -4), R(4427, -4), R(4437, -4), R(4447, -4),
         R(4457, -4), R(4467, -4), R(4477, -4), R(4487, -4), R(4497, -4)>>,
       <<R(4362, -4), R(4371, -4), R(4381, -4), R(4391, -4), R(4401, -4), R(4411, -4),
         R(442, -3), R(443, -3), R(444, -3), R(445, -3), R(4459, -4)>> >>

MuEG ==
    << <<R(5531, -6), R(53, -4), R(5082, -6), R(4876, -6), R(468, -5), R(4494, -6),
         R(4318, -6), R(4151, -6), R(3992, -6), R(3841, -6), R(3698, -6)>>,
       <<R(5713, -6), R(5474, -6), R(5248, -6), R(5033, -6), R(483, -5), R(4637, -6),
         R(4454, -6), R(4281, -6), R(4116, -6), R(3959, -6), R(3811, -6)>>,
       <<R(5902, -6), R(5654, -6), R(5418, -6), R(5195, -6), R(4984, -6), R(4784, -6),
         R(4594, -6), R(4414, -6), R(4244, -6), R(4081, -6), R(3927, -6)>>,
       <<R(6098, -6), R(5839, -6), R(5595, -6), R(5363, -6), R(5144, -6), R(4936, -6),
         R(4739, -6), R(4552, -6), R(4375, -6), R(4207, -6), R(4047, -6)>>,
       <<R(6299, -6), R(6031, -6), R(5776, -6), R(5536, -6), R(5308, -6), R(5093, -6),
         R(4888, -6), R(4694, -6), R(4511, -6), R(4336, -6), R(4171, -6)>>,
       <<R(6508, -6), R(6228, -6), R(5964, -6), R(5715, -6), R(5478, -6), R(5254, -6),
         R(5042, -6), R(4841, -6), R(465, -5), R(4469, -6), R(4298, -6)>> >>

PrEG ==
    << <<R(4557, -2), R(4359, -2), R(4172, -2), R(3995, -2), R(3828, -2), R(367, -1),
         R(352, -1), R(3377, -2), R(3243, -2), R(3115, -2), R(2993, -2)>>,
       <<R(4717, -2), R(4511, -2), R(4317, -2), R(4134, -2), R(396, -1), R(3795, -2),
         R(364, -1), R(3492, -2), R(3352, -2), R(3219, -2), R(3094, -2)>>,
       <<R(4882, -2), R(4669, -2), R(4467, -2), R(4276, -2), R(4096, -2), R(3925, -2),
         R(3764, -2), R(361, -1), R(3465, -2), R(3327, -2), R(3197, -2)>>,
       <<R(5053, -2), R(4831, -2), R(4622, -2), R(4424, -2), R(4236, -2), R(4059, -2),
         R(3891, -2), R(3732, -2), R(3581, -2), R(3439, -2), R(3303, -2)>>,
       <<R(5229, -2), R(4999, -2), R(4781, -2), R(4576, -2), R(4381, -2), R(4197, -2),
         R(4023, -2), R(3858, -2), R(3701, -2), R(3553, -2), R(3413, -2)>>,
       <<R(5412, -2), R(5172, -2), R(4946, -2), R(4732, -2), R(453, -1), R(4339, -2),
         R(4158, -2), R(3987, -2), R(3825, -2), R(3671, -2), R(3525, -2)>> >>

CpEG ==
    << <<R(3739, 0), R(3741, 0), R(3744, 0), R(3746, 0), R(3748, 0), R(3751, 0), R(3753, 0),
         R(3756, 0), R(3758, 0), R(376, 1), R(3763, 0)>>,
       <<R(3717, 0), R(3719, 0), R(3722, 0), R(3725, 0), R(3727, 0), R(373, 1), R(3732, 0),
         R(3735, 0), R(3737, 0), R(374, 1), R(3742, 0)>>,
       <<R(3695, 0), R(3698, 0), R(37, 2), R(3703, 0), R(3706, 0), R(3708, 0), R(3711, 0),
         R(3714, 0), R(3716, 0), R(3719, 0), R(3722, 0)>>,
       <<R(3672, 0), R(3675, 0), R(3678, 0), R(3681, 0), R(3684, 0), R(3687, 0), R(3689, 0),
         R(3692, 0), R(3695, 0), R(3698, 0), R(3701, 0)>>,
       <<R(365, 1), R(3653, 0), R(3656, 0), R(3659, 0), R(3662, 0), R(3665, 0), R(3668, 0),
         R(3671, 0), R(3674, 0), R(3677, 0), R(368, 1)>>,
       <<R(3627, 0), R(363, 1), R(3633, 0), R(3636, 0), R(364, 1), R(3643, 0), R(3646, 0),
         R(3649, 0), R(3652, 0), R(3655, 0), R(3658, 0)>> >>

(***************************************************************************)
(* Module parameters                                                       *)
(***************************************************************************)
DirectSystem == 1

IndirectSystem == 2

CaCl2 == 1

EG == 2

SurfaceTempControl == 1

BrineOutletTempControl == 2

NotOperating == 0

CoolingMode == 2

\* DataGlobals::Pi.
Pi == R(3142, -3)

MaxLaminarRe == R(2300, 0)

MaxExpPower == R(50, 0)

(***************************************************************************)
(* The property lookup shared by CalcDRinkHXEffectTerm, BOTC and           *)
(* CalcIRinkHXEffectTerm                                                   *)
(***************************************************************************)
\* "First find out where we are in the range of temperatures": the first
\* Index with Temperature < Temps(Index), NumOfPropDivisions + 1 if none.
RECURSIVE FindIndexShortLoop(_, _)
\* The search loop stopping one row early (Index < NumOfPropDivisions).
FindIndexShortLoop(Temperature, Index) ==
    IF Index >= NumOfPropDivisions THEN Index
    ELSE IF Lt(Temperature, Temps[Index]) THEN Index
    ELSE FindIndexShortLoop(Temperature, Index + 1)

RECURSIVE FindIndex(_, _)
FindIndex(Temperature, Index) ==
    IF Index > NumOfPropDivisions THEN Index
    ELSE IF Lt(Temperature, Temps[Index]) THEN Index
    ELSE FindIndex(Temperature, Index + 1)

\* The interpolation starting from the upper row of the interval.
InterpolateFromUpperRow(Table, Index, Temperature) ==
    IF Index = 1 THEN Table[Index]
    ELSE IF Index > NumOfPropDivisions THEN Table[NumOfPropDivisions]
    ELSE LET InterpFrac == Div(Sub(Temperature, Temps[Index - 1]),
                               Sub(Temps[Index], Temps[Index - 1]))
         IN  Add(Table[Index], Mul(InterpFrac, Sub(Table[Index], Table[Index - 1])))

\* One property at Temperature from one table: the lowest row below the grid,
\* the top row at and above it, and the linear interpolation in between.
Interpolate(Table, Index, Temperature) ==
    IF Index = 1 THEN Table[Index]
    ELSE IF Index > NumOfPropDivisions THEN Table[NumOfPropDivisions]
    ELSE LET InterpFrac == Div(Sub(Temperature, Temps[Index - 1]),
                               Sub(Temps[Index], Temps[Index - 1]))
         IN  Add(Table[Index - 1], Mul(InterpFrac, Sub(Table[Index], Table[Index - 1])))

\* The rows of the table that are read for Temperature.
RowsRead(Index) ==
    IF Index = 1 THEN {1}
    ELSE IF Index > NumOfPropDivisions THEN {NumOfPropDivisions}
    ELSE {Index - 1, Index}

Properties(MuTable, KTable, PrTable, CpTable, Temperature) ==
    LET Index == FindIndex(Temperature, 1)
    IN  [Index    |-> Index,
         Rows     |-> RowsRead(Index),
         MUactual |-> Interpolate(MuTable, Index, Temperature),
         Kactual  |-> Interpolate(KTable, Index, Temperature),
         PRactual |-> Interpolate(PrTable, Index, Temperature),
         Cpactual |-> Interpolate(CpTable, Index, Temperature)]

\* The concentration column CalcIRinkHXEffectTerm reads.  The tests on 27, 28
\* and 29 are assignments (Concentration = 27.00), whose value 27.0 is true: every
\* concentration other than 25 and 26 reads the 27% tables.
ConcentrationColumn(Concentration) ==
    IF Concentration = R(25, 0) THEN 25
    ELSE IF Concentration = R(26, 0) THEN 26
    ELSE 27

\* The value of the by-value parameter Concentration when the function returns.
ConcentrationAfter(Concentration) ==
    IF Concentration = R(25, 0) \/ Concentration = R(26, 0) THEN Concentration
    ELSE R(27, 0)

(***************************************************************************)
(* Reynolds number, Nusselt number, NTU and the effectiveness term         *)
(***************************************************************************)
\* The test of the regime with MaxLaminarRe itself taken for laminar.
IsTurbulentAbove(ReD) == Gt(ReD, MaxLaminarRe)

\* "Turbulent flow --> use Colburn equation", else the laminar constant.
IsTurbulent(ReD) == Ge(ReD, MaxLaminarRe)

NusseltNumber(ReD, PRactual) ==
    IF IsTurbulent(ReD)
    THEN Mul(Mul(R(23, -3), Pow(ReD, R(8, -1))), Pow(PRactual, Div(One, R(3, 0))))
    ELSE R(366, -2)

\* ReD = 4.0 * RefrigMassFlow / (Pi * MUactual * TubeDiameter)
ReynoldsNumber(RefrigMassFlow, MUactual, TubeDiameter) ==
    Div(Mul(R(4, 0), RefrigMassFlow), Mul(Mul(Pi, MUactual), TubeDiameter))

\* NTU = Pi * Kactual * NuD * TubeLength / (RefrigMassFlow * Cpactual)
NumberOfTransferUnits(Kactual, NuD, TubeLength, RefrigMassFlow, Cpactual) ==
    Div(Mul(Mul(Mul(Pi, Kactual), NuD), TubeLength), Mul(RefrigMassFlow, Cpactual))

\* The effectiveness with the sign of the exponent lost.
EffectivenessOfGrowth(NTU) ==
    IF Gt(NTU, MaxExpPower) THEN One ELSE Sub(One, Exp(NTU))

\* Eff = 1.0 - std::exp(-NTU), and 1.0 past MaxExpPower
Effectiveness(NTU) ==
    IF Gt(NTU, MaxExpPower) THEN One ELSE Sub(One, Exp(Neg(NTU)))

\* The value returned: Eff * RefrigMassFlow * Cpactual
HXResult(P, RefrigMassFlow, ReD, NuD, NTU, Eff) ==
    [Props |-> P, ReD |-> ReD, NuD |-> NuD, NTU |-> NTU, Eff |-> Eff,
     Term  |-> IF Gt(NTU, MaxExpPower) THEN Mul(RefrigMassFlow, P.Cpactual)
               ELSE Mul(Mul(Eff, RefrigMassFlow), P.Cpactual)]

HXFromNTU(P, RefrigMassFlow, ReD, NuD, NTU) ==
    HXResult(P, RefrigMassFlow, ReD, NuD, NTU, Effectiveness(NTU))

HXFromNuD(P, RefrigMassFlow, TubeLength, ReD, NuD) ==
    HXFromNTU(P, RefrigMassFlow, ReD, NuD,
              NumberOfTransferUnits(P.Kactual, NuD, TubeLength, RefrigMassFlow, P.Cpactual))

HXFromReD(P, RefrigMassFlow, TubeLength, ReD) ==
    HXFromNuD(P, RefrigMassFlow, TubeLength, ReD, NusseltNumber(ReD, P.PRactual))

HXEffectTerm(P, RefrigMassFlow, TubeLength, TubeDiameter) ==
    HXFromReD(P, RefrigMassFlow, TubeLength,
              ReynoldsNumber(RefrigMassFlow, P.MUactual, TubeDiameter))

CalcDRinkHXEffectTerm(Temperature, RefrigMassFlow, TubeLength, TubeDiameter) ==
    HXEffectTerm(Properties(Mu, Conductivity, Pr, Cp, Temperature),
                 RefrigMassFlow, TubeLength, TubeDiameter)
    @@ [SysNum |-> 1, Temperature |-> Temperature, RefrigMassFlow |-> RefrigMassFlow,
        TubeLength |-> TubeLength, TubeDiameter |-> TubeDiameter]

CalcIRinkHXEffectTerm(Temperature, RefrigMassFlow, TubeLength, TubeDiameter, RefrigType, Concentration) ==
    LET col == ConcentrationColumn(Concentration) - 24
        P   == IF RefrigType = CaCl2
               THEN Properties(MuCacl2[col], ConductivityCacl2[col], PrCacl2[col],
                               CpCacl2[col], Temperature)
               ELSE Properties(MuEG[col], ConductivityEG[col], PrEG[col],
                               CpEG[col], Temperature)
        H   == HXEffectTerm(P, RefrigMassFlow, TubeLength, TubeDiameter)
    IN  H @@ [Column        |-> ConcentrationColumn(Concentration),
              Concentration |-> ConcentrationAfter(Concentration)]

(***************************************************************************)
(* Bounds and input data                                                   *)
(***************************************************************************)
\* DataSurfaces::TotSurfaces: the number of surfaces of the building.
TotSurfaces == 2

Surfaces == 1 .. TotSurfaces

\* DataSurfaces::Surface and DataHeatBalance::Construct, which the surface
\* input leaves fixed for the run: odd surfaces are floors, even ones walls,
\* each with a construction of its own.
Surface ==
    [s \in Surfaces |->
        [Class        |-> IF s % 2 = 1 THEN "Floor" ELSE "Wall",
         Area         |-> IF s % 2 = 1 THEN R(500, 0) ELSE R(100, 0),
         Construction |-> s]]

\* DataSurfaces::HeatTransferModel_CTF, and the algorithms a building's
\* surfaces can be solved with: conduction transfer functions or finite
\* differences.
HeatTransferModel_CTF == "CTF"

HeatTransferModels == {HeatTransferModel_CTF, "CondFD"}

Construct ==
    [c \in Surfaces |->
        [CTFTSourceQ |-> R(1, -2), CTFTSourceIn |-> R(3, -1), CTFTSourceOut |-> R(3, -1)]]

\* The lists of distinct surfaces a system's SurfacePtrArray may hold.
RECURSIVE SurfaceListsOfLen(_)
SurfaceListsOfLen(n) ==
    IF n = 0 THEN {<<>>}
    ELSE {Append(l, s) : l \in SurfaceListsOfLen(n - 1), s \in Surfaces}

IsInjective(l) == \A i, j \in DOMAIN l : l[i] = l[j] => i = j

SurfaceLists ==
    {l \in UNION {SurfaceListsOfLen(n) : n \in 0 .. TotSurfaces} : IsInjective(l)}

\* The surface heat balance coefficients of one surface (RadSysTiHBConstCoef,
\* RadSysTiHBToutCoef, RadSysTiHBQsrcCoef, RadSysToHBConstCoef, RadSysToHBTinCoef,
\* RadSysToHBQsrcCoef and CTFTsrcConstPart), as the heat balance supplies them:
\* a slab whose source layer sits near -1.8 C.
HBWarmSlab ==
    [TiHBConstCoef |-> R(5, 0), TiHBToutCoef |-> R(1, -1), TiHBQsrcCoef |-> R(1, -3),
     ToHBConstCoef |-> R(-2, 0), ToHBTinCoef |-> R(2, -1), ToHBQsrcCoef |-> R(2, -3),
     CTFTsrcConstPart |-> R(-3, 0)]

\* A slab with a large source resistance (the Qsrc coefficients of a thick slab).
HBThickSlab ==
    [HBWarmSlab EXCEPT !.TiHBQsrcCoef = R(40, 0), !.ToHBQsrcCoef = R(40, 0)]

HBSets == {HBWarmSlab, HBThickSlab}

\* Inlet node conditions the plant can set.
NodeFlows == {R(-5, -1), Zero, R(20, 0)}

NodeTemps == {R(-12, 0), R(2, 0)}

\* Values of the availability schedule.
ScheduleValues == {Zero, One}

\* What an uninitialized Real64 may hold.
UninitializedReal == {Zero, R(-3, 0), R(7, 0)}

\* Alphas(5) of the input object.
ControlTypeInputs == {"RefrigOutletTemperature", "IceSurfaceTemperature", "Other"}

(***************************************************************************)
(* State                                                                   *)
(***************************************************************************)
VARIABLES
    DRink,          \* the direct refrigeration system DRink(1)
    IRink,          \* the indirect refrigeration system IRink(1)
    Node,           \* DataLoopNode::Node: inlet node -> [MassFlowRate, Temp]
    HB,             \* the heat balance coefficients of every surface
    HeatTransferAlgorithm, \* Surface(s).HeatTransferAlgorithm, per surface
    Alphas,         \* the alpha fields of the direct system's input object
    SchedValue,     \* GetCurrentScheduleValue(DRink(1).SchedPtr)
    FluidCp,        \* GetSpecificHeatGlycol of the brine
    Ice,            \* the ice surface temperature and its setpoint
    QRadSysSource,  \* DataHeatBalFanSys::QRadSysSource, per surface
    OperatingMode,  \* the module-wide operating mode
    calls,          \* the calls made by the last evaluation, in order
    botc,           \* the inputs and the result of the last BOTC call
    hx,             \* the last effectiveness calculation of an indirect system
    dhx,            \* the last effectiveness calculation of a direct system
    eval,           \* the inputs and the path of the last evaluation
    fatal,          \* ShowFatalError has ended the run
    flags,          \* FirstTimeInit and the static flags of InitIndoorIceRink
    avg,            \* ZeroSourceSumHATsurf and the averaging records, per surface
    plant,          \* allocated(PlantLoop) and DataGlobals::AnyPlantInModel
    last            \* what the last InitIndoorIceRink call met and did

vars == <<DRink, IRink, Node, HB, HeatTransferAlgorithm, Alphas,
                   SchedValue, FluidCp, Ice, QRadSysSource, OperatingMode,
          calls, botc, hx, dhx, eval, fatal, flags, avg, plant, last>>

\* The state of InitIndoorIceRink, which the other operations leave alone.
initVars == <<flags, avg, plant, last>>

Call(fn, arg, ret) == [fn |-> fn, arg |-> arg, ret |-> ret]

NoBOTC == [SystemType |-> 0]

NoHX == [RefrigType |-> 0]

NoDHX == [SysNum |-> 0]

(***************************************************************************)
(* GetIndoorIceRink                                                        *)
(***************************************************************************)
\* A reading of the control type that leaves an unknown keyword unresolved.
ProcessControlTypeKeepsUnknown(alpha) ==
    IF alpha = "RefrigOutletTemperature" THEN BrineOutletTempControl
    ELSE IF alpha = "IceSurfaceTemperature" THEN SurfaceTempControl
    ELSE 0

\* "Process the temperature control type".
ProcessControlType(alpha) ==
    IF alpha = "RefrigOutletTemperature" THEN BrineOutletTempControl
    ELSE IF alpha = "IceSurfaceTemperature" THEN SurfaceTempControl
    ELSE SurfaceTempControl

\* The cooled surface of a system: "Pointing the SurfNum2 to the floor as the
\* rink can only be the floor".  The last floor of SurfacePtrArray, or 0 when
\* the loop assigns nothing and SurfNum2 stays uninitialized.
RECURSIVE FloorFrom(_, _, _)
FloorFrom(sys, SurfNum, SurfNum2) ==
    IF SurfNum > sys.NumOfSurfaces THEN SurfNum2
    ELSE IF Surface[sys.SurfacePtrArray[SurfNum]].Class = "Floor"
         THEN FloorFrom(sys, SurfNum + 1, sys.SurfacePtrArray[SurfNum])
         ELSE FloorFrom(sys, SurfNum + 1, SurfNum2)

FloorOf(sys) == FloorFrom(sys, 1, 0)

HasFloor(sys) == FloorOf(sys) # 0

(***************************************************************************)
(* The control resolver: BOTC and STC                                      *)
(***************************************************************************)
\* Ck = Cg + ((Ci * (Ca + Cb * Cd) + Cj * (Cd + Ce * Ca)) / (1.0 - Ce * Cb))
CouplingCk(c, con) ==
    Add(c.CTFTsrcConstPart,
        Div(Add(Mul(con.CTFTSourceIn,
                    Add(c.TiHBConstCoef, Mul(c.TiHBToutCoef, c.ToHBConstCoef))),
                Mul(con.CTFTSourceOut,
                    Add(c.ToHBConstCoef, Mul(c.ToHBTinCoef, c.TiHBConstCoef)))),
            Sub(One, Mul(c.ToHBTinCoef, c.TiHBToutCoef))))

\* Cl = Ch + ((Ci * (Cc + Cb * Cf) + Cj * (Cf + Ce * Cc)) / (1.0 - Ce * Cb))
CouplingCl(c, con) ==
    Add(con.CTFTSourceQ,
        Div(Add(Mul(con.CTFTSourceIn,
                    Add(c.TiHBQsrcCoef, Mul(c.TiHBToutCoef, c.ToHBQsrcCoef))),
                Mul(con.CTFTSourceOut,
                    Add(c.ToHBQsrcCoef, Mul(c.ToHBTinCoef, c.TiHBQsrcCoef)))),
            Sub(One, Mul(c.ToHBTinCoef, c.TiHBToutCoef))))

\* The guess of the refrigerant mass flow an indirect system's BOTC starts from.
BOTCGuessFlow == R(1, -1)

\* "Cooling is not required and refrigeration system should be off".
TargetMet(RefrigOutTemp, RefrigOutTempDesired) == Le(RefrigOutTemp, RefrigOutTempDesired)

\* The required flow of an indirect system whose outlet is above the target.
RequiredFlow(Ck, Cl, RefrigInTemp, RefrigOutTemp, Eff, PipeArea, CpRef) ==
    Mul(Sub(Div(Sub(Ck, RefrigInTemp), Sub(RefrigOutTemp, RefrigInTemp)), Div(One, Eff)),
        Div(PipeArea, Mul(CpRef, Cl)))

\* "The refrigeration system is undersized".
Undersized(RefrigMassFlow_Req, RefrigFlowMaxCool) == Ge(RefrigMassFlow_Req, RefrigFlowMaxCool)

ClampToMax(RefrigMassFlow_Req, RefrigFlowMaxCool) ==
    IF Undersized(RefrigMassFlow_Req, RefrigFlowMaxCool)
    THEN RefrigFlowMaxCool ELSE RefrigMassFlow_Req

\* The value BOTC starts from and returns when no branch assigns it.
RefrigMassFlow_Req0 == Zero

\* QSource = (RefrigInTemp - Ck) / ((Cl / Area) + (1 / (RefrigMassFlow * CpRef)))
BOTCSource(RefrigInTemp, Ck, Cl, Area, CpRef) ==
    Div(Sub(RefrigInTemp, Ck), Add(Div(Cl, Area), Div(One, Mul(BOTCGuessFlow, CpRef))))

\* RefrigOutTemp = RefrigInTemp - (QSource / (RefrigMassFlow * CpRef))
BOTCOutTemp(RefrigInTemp, QSource, CpRef) ==
    Sub(RefrigInTemp, Div(QSource, Mul(BOTCGuessFlow, CpRef)))

\* The branch on the outlet temperature and the clamp.
BOTCDecide(sys, Ck, Cl, QSource, RefrigOutTemp, met, cand) ==
    [Floors |-> 1, Ck |-> Ck, Cl |-> Cl, QSource |-> QSource,
     RefrigOutTemp |-> RefrigOutTemp, TargetMet |-> met, Candidate |-> cand,
     Req |-> IF met THEN sys.RefrigFlowMinCool
             ELSE ClampToMax(cand, sys.RefrigFlowMaxCool)]

BOTCFromOutTemp(sys, RefrigInTemp, CpRef, Eff, PipeArea, Ck, Cl, QSource, RefrigOutTemp) ==
    BOTCDecide(sys, Ck, Cl, QSource, RefrigOutTemp,
               TargetMet(RefrigOutTemp, sys.RefOutBOTCtrlTemp),
               IF TargetMet(RefrigOutTemp, sys.RefOutBOTCtrlTemp) THEN Zero
               ELSE RequiredFlow(Ck, Cl, RefrigInTemp, RefrigOutTemp, Eff, PipeArea, CpRef))

BOTCFromSource(sys, RefrigInTemp, CpRef, Eff, PipeArea, Ck, Cl, QSource) ==
    BOTCFromOutTemp(sys, RefrigInTemp, CpRef, Eff, PipeArea, Ck, Cl, QSource,
                    BOTCOutTemp(RefrigInTemp, QSource, CpRef))

BOTCFromCoupling(sys, RefrigInTemp, CpRef, Eff, PipeArea, Ck, Cl, Area) ==
    BOTCFromSource(sys, RefrigInTemp, CpRef, Eff, PipeArea, Ck, Cl,
                   BOTCSource(RefrigInTemp, Ck, Cl, Area, CpRef))

\* One pass of the indirect branch's loop body for a floor: the loop index
\* SurfNum, not the surface it points to, selects the coefficients and the area.
BOTCFloor(sys, SurfNum, RefrigInTemp, CpRef, Eff, PipeArea, hb) ==
    BOTCFromCoupling(sys, RefrigInTemp, CpRef, Eff, PipeArea,
                     CouplingCk(hb[SurfNum], Construct[Surface[SurfNum].Construction]),
                     CouplingCl(hb[SurfNum], Construct[Surface[SurfNum].Construction]),
                     Surface[SurfNum].Area)

NoFloor ==
    [Floors |-> 0, Ck |-> Zero, Cl |-> Zero, QSource |-> Zero, RefrigOutTemp |-> Zero,
     TargetMet |-> FALSE, Candidate |-> Zero, Req |-> RefrigMassFlow_Req0]

\* The surfaces the loop of the indirect branch takes for floors, in order.
RECURSIVE FloorPasses(_, _)
FloorPasses(sys, SurfNum) ==
    IF SurfNum > sys.NumOfSurfaces THEN <<>>
    ELSE IF Surface[sys.SurfacePtrArray[SurfNum]].Class = "Floor"
         THEN <<SurfNum>> \o FloorPasses(sys, SurfNum + 1)
         ELSE FloorPasses(sys, SurfNum + 1)

\* The loop over the surfaces: every floor overwrites the result of the one before.
BOTCLoop(sys, passes, RefrigInTemp, CpRef, Eff, PipeArea, hb) ==
    IF passes = <<>> THEN NoFloor
    ELSE [BOTCFloor(sys, passes[Len(passes)], RefrigInTemp, CpRef, Eff, PipeArea, hb)
            EXCEPT !.Floors = Len(passes)]

BOTCResult(r, SystemType, sys, Temperature, RefrigInTemp, Desired, EffFlow, Eff, PipeArea, CpRef, H) ==
    r @@ [SystemType |-> SystemType, Temperature |-> Temperature,
          RefrigInTemp |-> RefrigInTemp, Desired |-> Desired,
          Min |-> sys.RefrigFlowMinCool, Max |-> sys.RefrigFlowMaxCool,
          EffFlow |-> EffFlow, Eff |-> Eff, PipeArea |-> PipeArea,
          CpRef |-> CpRef, HX |-> H]

BOTCFromEff(sys, Temperature, RefrigInTemp, CpRef, hb, H, Eff, PipeArea) ==
    BOTCResult(BOTCLoop(sys, FloorPasses(sys, 1), RefrigInTemp, CpRef, Eff, PipeArea, hb),
               IndirectSystem, sys, Temperature, RefrigInTemp, sys.RefOutBOTCtrlTemp,
               BOTCGuessFlow, Eff, PipeArea, CpRef, H)

BOTCFromHX(sys, Temperature, RefrigInTemp, CpRef, hb, H) ==
    BOTCFromEff(sys, Temperature, RefrigInTemp, CpRef, hb, H,
                Div(H.Term, Mul(BOTCGuessFlow, CpRef)),
                Mul(Mul(Pi, sys.TubeDiameter), sys.TubeLength))

\* BOTC for an indirect system: the inlet temperature comes from the inlet node.
BOTCIndirect(sys, Temperature, RefrigInTemp, CpRef, hb) ==
    BOTCFromHX(sys, Temperature, RefrigInTemp, CpRef, hb,
               CalcIRinkHXEffectTerm(RefrigInTemp, BOTCGuessFlow, sys.TubeLength,
                                     sys.TubeDiameter, sys.RefrigType, sys.Concentration))

\* BOTC for a direct system: the branch works out an outlet temperature and
\* leaves RefrigMassFlow_Req as it was initialized.
BOTCDirect(sys, Temperature, hb) ==
    BOTCResult(NoFloor, DirectSystem, sys, Temperature, Temperature,
               sys.RefOutBOTCCtrlTemp, Zero, Zero,
               Mul(Mul(Pi, sys.TubeDiameter), sys.TubeLength), Zero, NoHX)

\* STC
STC == Zero

(***************************************************************************)
(* The orchestrator of a direct system                                     *)
(***************************************************************************)
\* SetComponentFlowRate of PlantUtilities, which this module only calls: the
\* request is what the evaluation hands over.
SetComponentFlowRate(log, mdot) == Append(log, Call("SetComponentFlowRate", mdot, mdot))

\* The surface a SurfNum2 stands for: the system's floor, or, when the search
\* loop assigned nothing, whatever the uninitialized index holds (0 stands for
\* an index outside every array).
SurfNum2Values(sys) == IF HasFloor(sys) THEN {FloorOf(sys)} ELSE 0 .. TotSurfaces

\* QRadSysSource(SurfNum2) = value
SetSource(Q, SurfNum2, value) ==
    IF SurfNum2 \in Surfaces THEN [Q EXCEPT ![SurfNum2] = value] ELSE Q

\* A guard that lets a flow of zero through.
NoFlowBelowZero(RefrigMassFlow) == Lt(RefrigMassFlow, Zero)

\* "No flow or below minimum allowed so there is no heat source/sink".
NoFlow(RefrigMassFlow) == Le(RefrigMassFlow, Zero)

\* QRadSysSource = EpsMdotCp * (RefrigTempIn - Ck) / (1.0 + (EpsMdotCp * Cl / Area))
HeatSource(EpsMdotCp, RefrigTempIn, Ck, Cl, Area) ==
    Div(Mul(EpsMdotCp, Sub(RefrigTempIn, Ck)),
        Add(One, Div(Mul(EpsMdotCp, Cl), Area)))

\* A cut-off that acts on the heat source alone.
CutOffAnyMode(mode, source) == Ge(source, Zero)

\* The "Temperature Comparision" cut-off.
CutOff(mode, source) == mode = CoolingMode /\ Ge(source, Zero)

\* What CalcDirectIndoorIceRinkComps leaves behind.
CompsResult(isFatal, Q, log, sys, RefrigMassFlow, RefrigTempIn, Branch, source, cut, H) ==
    [fatal |-> isFatal, Q |-> Q, calls |-> log, sys |-> sys,
     RefrigMassFlow |-> RefrigMassFlow, RefrigTempIn |-> RefrigTempIn,
     Branch |-> Branch, HeatSource |-> source, CutOff |-> cut, HX |-> H]

\* The cut-off: the flow is set to zero, handed to the plant and stored.
CompsCutOff(sys, RefrigMassFlow, RefrigTempIn, Q1, source, log, cut, H) ==
    CompsResult(FALSE, Q1, IF cut THEN SetComponentFlowRate(log, Zero) ELSE log,
                IF cut THEN [sys EXCEPT !.RefrigMassFlowRate = Zero] ELSE sys,
                RefrigMassFlow, RefrigTempIn, "flow", source, cut, H)

\* The test of the cut-off reads QRadSysSource(SurfNum), SurfNum being what the
\* search loop left: one past the system's surfaces.
CompsFromSource(sys, RefrigMassFlow, RefrigTempIn, Q1, source, mode, garbage, log, H) ==
    CompsCutOff(sys, RefrigMassFlow, RefrigTempIn, Q1, source, log,
                CutOff(mode, IF sys.NumOfSurfaces + 1 \in Surfaces
                             THEN Q1[sys.NumOfSurfaces + 1] ELSE garbage), H)

\* The heat source of the floor, for a surface solved with CTFs.
SourceOfFloor(EpsMdotCp, RefrigTempIn, hb, SurfNum2) ==
    HeatSource(EpsMdotCp, RefrigTempIn,
               CouplingCk(hb[SurfNum2], Construct[Surface[SurfNum2].Construction]),
               CouplingCl(hb[SurfNum2], Construct[Surface[SurfNum2].Construction]),
               Surface[SurfNum2].Area)

CompsFromTerm(sys, RefrigMassFlow, RefrigTempIn, hb, Q, mode, SurfNum2, garbage, log, source, H) ==
    CompsFromSource(sys, RefrigMassFlow, RefrigTempIn, SetSource(Q, SurfNum2, source),
                    source, mode, garbage, log, H)

CompsWithFlow(sys, RefrigMassFlow, RefrigTempIn, hb, Q, mode, SurfNum2, garbage, log, H) ==
    CompsFromTerm(sys, RefrigMassFlow, RefrigTempIn, hb, Q, mode, SurfNum2, garbage,
                  Append(log, Call("CalcDRinkHXEffectTerm", RefrigMassFlow, H.Term)),
                  IF SurfNum2 \in Surfaces
                  THEN IF HeatTransferAlgorithm[SurfNum2] = HeatTransferModel_CTF
                       THEN SourceOfFloor(H.Term, RefrigTempIn, hb, SurfNum2)
                       ELSE Q[SurfNum2]
                  ELSE garbage, H)

CompsFromNode(sys, RefrigMassFlow, RefrigTempIn, hb, Q, mode, SurfNum2, garbage, log) ==
    IF NoFlow(RefrigMassFlow)
    THEN CompsResult(FALSE, SetSource(Q, SurfNum2, Zero), log, sys,
                     RefrigMassFlow, RefrigTempIn, "idle", Zero, FALSE, NoDHX)
    ELSE CompsWithFlow(sys, RefrigMassFlow, RefrigTempIn, hb, Q, mode, SurfNum2, garbage,
                       log,
                       CalcDRinkHXEffectTerm(RefrigTempIn, RefrigMassFlow,
                                             sys.TubeLength, sys.TubeLength))

\* CalcDirectIndoorIceRinkComps.  SurfNum2 is the floor found by the search loop
\* (or what the index holds), garbage what an element outside an array reads.
CalcDirectIndoorIceRinkComps(sys, node, hb, Q, mode, SurfNum2, garbage, log) ==
    IF sys.ColdRefrigInNode = 0
    THEN CompsResult(TRUE, Q, log, sys, Zero, Zero, "fatal", Zero, FALSE, NoDHX)
    ELSE CompsFromNode(sys, node[sys.ColdRefrigInNode].MassFlowRate,
                       node[sys.ColdRefrigInNode].Temp, hb, Q, mode, SurfNum2, garbage,
                       log)

\* What is known of the last evaluation of the direct system.
NoEval == [Done |-> FALSE]

Evaluation(Available, SurfNum2, Resolver, mdot, c) ==
    [Done |-> TRUE, Available |-> Available, SurfNum2 |-> SurfNum2,
     Resolver |-> Resolver, mdot |-> mdot, Branch |-> c.Branch,
     RefrigMassFlow |-> c.RefrigMassFlow, RefrigTempIn |-> c.RefrigTempIn,
     HeatSource |-> c.HeatSource, CutOff |-> c.CutOff]

\* The system is not available: no heat source, and the flow handed to the
\* plant is mdot, which nothing has assigned.
SysNotAvailable(SurfNum2, mdot) ==
    /\ QRadSysSource' = SetSource(QRadSysSource, SurfNum2, Zero)
    /\ calls' = SetComponentFlowRate(<<>>, mdot)
    /\ eval' = Evaluation(FALSE, SurfNum2, "none", mdot,
                          [Branch |-> "off", RefrigMassFlow |-> Zero,
                           RefrigTempIn |-> Zero, HeatSource |-> Zero, CutOff |-> FALSE])
    /\ dhx' = NoDHX
    /\ UNCHANGED <<DRink, botc, fatal>>

\* The end of an evaluation that called CalcDirectIndoorIceRinkComps.
SysAfterComps(SurfNum2, Resolver, mdot, c) ==
    /\ fatal' = c.fatal
    /\ calls' = c.calls
    /\ QRadSysSource' = c.Q
    /\ DRink' = c.sys
    /\ eval' = Evaluation(TRUE, SurfNum2, Resolver, mdot, c)
    /\ dhx' = c.HX

\* The system is available: the control type selects the resolver, and
\* CalcDirectIndoorIceRinkComps follows.
SysAvailable(SurfNum2, garbage, mode, b) ==
    IF DRink.ControlType = BrineOutletTempControl
    THEN /\ botc' = b
         /\ SysAfterComps(SurfNum2, "BOTC", b.Req,
                CalcDirectIndoorIceRinkComps(DRink, Node, HB, QRadSysSource, mode, SurfNum2,
                    garbage, <<Call("BOTC", b.Temperature, b.Req)>>))
    ELSE IF DRink.ControlType = SurfaceTempControl
    THEN /\ botc' = botc
         /\ SysAfterComps(SurfNum2, "STC", STC,
                CalcDirectIndoorIceRinkComps(DRink, Node, HB, QRadSysSource, mode, SurfNum2,
                    garbage, <<Call("STC", Zero, STC)>>))
    ELSE /\ fatal' = TRUE
         /\ calls' = <<Call("STC", Zero, STC)>>
         /\ eval' = Evaluation(TRUE, SurfNum2, "STC", STC,
                               [Branch |-> "fatal", RefrigMassFlow |-> Zero,
                                RefrigTempIn |-> Zero, HeatSource |-> Zero,
                                CutOff |-> FALSE])
         /\ dhx' = NoDHX
         /\ UNCHANGED <<DRink, botc, QRadSysSource>>

\* CalcDirectIndoorIceRinkSys, with the CalcDirectIndoorIceRinkComps call it makes.
CalcDirectIndoorIceRinkSys ==
    /\ ~fatal
    /\ OperatingMode' = NotOperating
    /\ IF Le(SchedValue, Zero)
       THEN \E SurfNum2 \in SurfNum2Values(DRink), mdot \in UninitializedReal :
              SysNotAvailable(SurfNum2, mdot)
       ELSE \E SurfNum2 \in SurfNum2Values(DRink) :
            \E garbage \in (IF HasFloor(DRink) /\ DRink.NumOfSurfaces + 1 \in Surfaces
                            THEN {Zero} ELSE UninitializedReal) :
              SysAvailable(SurfNum2, garbage, NotOperating,
                           BOTCDirect(DRink, DRink.RefrigInletTemp, HB))
    /\ UNCHANGED <<initVars, IRink, Node, HB, HeatTransferAlgorithm, Alphas, SchedValue, FluidCp, Ice, hx>>

(***************************************************************************)
(* The surroundings of the module                                          *)
(***************************************************************************)
\* The coefficient sets the heat balance can hand over: one set for the
\* floors and one for the other surfaces.
HBProfiles ==
    {[s \in Surfaces |-> IF Surface[s].Class = "Floor" THEN f ELSE w] :
        f \in HBSets, w \in HBSets}

\* New conditions start a new evaluation: the record of the last one is dropped.
StartOfEvaluation == calls' = <<>> /\ botc' = NoBOTC /\ eval' = NoEval /\ dhx' = NoDHX

\* The plant sets the flow and the temperature of the direct system's inlet node.
PlantSetsInletNode ==
    /\ ~fatal
    /\ \E flow \in NodeFlows, temp \in NodeTemps :
         Node' = [Node EXCEPT ![1] = [MassFlowRate |-> flow, Temp |-> temp]]
    /\ UNCHANGED <<initVars, DRink, IRink, HB, HeatTransferAlgorithm, Alphas,
                   SchedValue, FluidCp, Ice, QRadSysSource, OperatingMode,
                   hx, fatal>>
    /\ StartOfEvaluation

\* The availability schedule takes a new value.
ScheduleChanges ==
    /\ ~fatal
    /\ \E v \in ScheduleValues : SchedValue' = v
    /\ UNCHANGED <<initVars, DRink, IRink, Node, HB, HeatTransferAlgorithm, Alphas, FluidCp, Ice, QRadSysSource, OperatingMode,
                   hx, fatal>>
    /\ StartOfEvaluation

\* A resolver that stores the source temperature it works with in the floor's
\* CTFTsrcConstPart.
BOTCIndirectSystemStoresSourceTerm ==
    /\ ~fatal
    /\ HasFloor(IRink)
    /\ HB' = [HB EXCEPT ![FloorOf(IRink)].CTFTsrcConstPart = IRink.RefrigInletTemp]
    /\ botc' = BOTCIndirect(IRink, IRink.RefrigInletTemp, Node[IRink.ColdRefrigInNode].Temp,
                            FluidCp, HB)
    /\ calls' = <<Call("BOTC", botc'.Temperature, botc'.Req)>>
    /\ eval' = NoEval
    /\ UNCHANGED <<initVars, DRink, IRink, Node, HeatTransferAlgorithm, Alphas, SchedValue,
                   FluidCp, Ice, QRadSysSource, OperatingMode, hx, dhx, fatal>>

\* BOTC(IndirectSystem, 1, IRink(1).RefrigInletTemp)
BOTCIndirectSystem ==
    /\ ~fatal
    /\ LET b == BOTCIndirect(IRink, IRink.RefrigInletTemp, Node[IRink.ColdRefrigInNode].Temp,
                             FluidCp, HB)
       IN  /\ botc' = b
           /\ calls' = <<Call("CalcIRinkHXEffectTerm", b.EffFlow, b.HX.Term),
                         Call("BOTC", b.Temperature, b.Req)>>
    /\ eval' = NoEval
    /\ UNCHANGED <<initVars, DRink, IRink, Node, HB, HeatTransferAlgorithm, Alphas, SchedValue, FluidCp, Ice, QRadSysSource,
                   OperatingMode, hx, dhx, fatal>>

\* BOTC(DirectSystem, 1, Temperature)
BOTCDirectSystem ==
    /\ \E Temperature \in NodeTemps :
         LET b == BOTCDirect(DRink, Temperature, HB)
         IN  /\ botc' = b
             /\ calls' = <<Call("BOTC", Temperature, b.Req)>>
    /\ eval' = NoEval
    /\ UNCHANGED <<initVars, DRink, IRink, Node, HB, HeatTransferAlgorithm, Alphas, SchedValue, FluidCp, Ice, QRadSysSource,
                   OperatingMode, hx, dhx, fatal>>

\* STC()
STCDirectSystem ==
    /\ calls' = <<Call("STC", Zero, STC)>>
    /\ botc' = NoBOTC
    /\ eval' = NoEval
    /\ UNCHANGED <<initVars, DRink, IRink, Node, HB, HeatTransferAlgorithm, Alphas, SchedValue, FluidCp, Ice, QRadSysSource,
                   OperatingMode, hx, dhx, fatal>>

\* CalcIRinkHXEffectTerm for the indirect system at the conditions of its inlet node.
IRinkHXEffectTerm ==
    /\ hx' = CalcIRinkHXEffectTerm(Node[2].Temp, Node[2].MassFlowRate, IRink.TubeLength,
                                   IRink.TubeDiameter, IRink.RefrigType,
                                   IRink.Concentration)
             @@ [RefrigType |-> IRink.RefrigType, Given |-> IRink.Concentration,
                 Temperature |-> Node[2].Temp]
    /\ calls' = <<Call("CalcIRinkHXEffectTerm", Node[2].MassFlowRate, hx'.Term)>>
    /\ UNCHANGED <<initVars, DRink, IRink, Node, HB, HeatTransferAlgorithm, Alphas, SchedValue, FluidCp, Ice, QRadSysSource,
                   OperatingMode, botc, dhx, eval, fatal>>

\* CalcDRinkHXEffectTerm for the direct system at the conditions of its inlet node.
DRinkHXEffectTerm ==
    /\ dhx' = CalcDRinkHXEffectTerm(Node[1].Temp, Node[1].MassFlowRate, DRink.TubeLength,
                                    DRink.TubeDiameter)
    /\ calls' = <<Call("CalcDRinkHXEffectTerm", Node[1].MassFlowRate, dhx'.Term)>>
    /\ UNCHANGED <<initVars, DRink, IRink, Node, HB, HeatTransferAlgorithm, Alphas, SchedValue, FluidCp, Ice, QRadSysSource,
                   OperatingMode, botc, hx, eval, fatal>>

(***************************************************************************)
(* InitIndoorIceRink                                                       *)
(***************************************************************************)
\* The statics before the first call.  The flag arrays are not allocated
\* until MyOneTimeFlag's block sets every element to true; FALSE stands for
\* the elements that are not there yet.
FlagsAtStart ==
    [MyOneTimeFlag        |-> TRUE,
     FirstTimeInit        |-> TRUE,
     MyEnvrnFlagGeneral   |-> TRUE,
     MyEnvrnFlagDRink     |-> FALSE,
     MyEnvrnFlagIRink     |-> FALSE,
     MyPlantScanFlagDRink |-> FALSE,
     MyPlantScanFlagIRink |-> FALSE]

\* ZeroSourceSumHATsurf of the rink's zone and the averaging records.  The
\* arrays are empty until FirstTimeInit's block dimensions them; nothing
\* ever dimensions LastTimeStepSys.
AveragesAtStart ==
    [ZeroSourceSumHATsurf |-> Zero,
     QRadSysSrcAvg        |-> <<>>,
     LastQRadSysSrc       |-> <<>>,
     LastSysTimeElapsed   |-> <<>>,
     LastTimeStepSys      |-> <<>>]

NoInitCall == [Done |-> FALSE, BeginEnvrnFlag |-> FALSE, Scans |-> <<0, 0>>, ResetsInRun |-> <<0, 0>>]

\* PlantLoop is not allocated at the start of a run.
PlantAtStart(AnyPlantInModel) == [Allocated |-> FALSE, AnyPlantInModel |-> AnyPlantInModel]

InitStatics ==
    /\ flags = FlagsAtStart
    /\ avg = AveragesAtStart
    /\ plant = PlantAtStart(TRUE)
    /\ last = NoInitCall

\* SumHATsurf(ZoneNum) of the rink's zone, which the heat balance decides.
SumHATsurfOfZone == R(250, 0)

\* "if (MyOneTimeFlag)": the flag arrays are allocated and set.
AfterOneTime(f) ==
    IF f.MyOneTimeFlag
    THEN [f EXCEPT !.MyEnvrnFlagDRink = TRUE, !.MyEnvrnFlagIRink = TRUE,
                   !.MyPlantScanFlagDRink = TRUE, !.MyPlantScanFlagIRink = TRUE,
                   !.MyOneTimeFlag = FALSE]
    ELSE f

\* Array = 0.0 for an array of one element per surface; an empty one stays empty.
ZeroedArray(a) == [s \in DOMAIN a |-> Zero]

\* Array(SurfNum2) = 0.0; an index outside the array (0 stands for every such
\* index) leaves the elements of the array as they are.
ZeroedAt(a, SurfNum2) == IF SurfNum2 \in DOMAIN a THEN [a EXCEPT ![SurfNum2] = Zero] ELSE a

\* Surface(sys.SurfacePtrArray(SurfNum2)).Area, SurfNum2 being a surface
\* number: an element outside SurfacePtrArray reads what happens to be there.
AreaPointedAt(sys, SurfNum2, garbage) ==
    IF SurfNum2 \in 1 .. sys.NumOfSurfaces
    THEN Surface[sys.SurfacePtrArray[SurfNum2]].Area
    ELSE garbage

\* "Initialize total area for all refrigeration systems": the sum the loop
\* over the surfaces of one system adds to DRink(LoopCounter).SurfaceArea.
RECURSIVE TotalAreaFrom(_, _, _)
TotalAreaFrom(sys, SurfNum, garbage) ==
    IF SurfNum > sys.NumOfSurfaces THEN Zero
    ELSE IF Surface[sys.SurfacePtrArray[SurfNum]].Class = "Floor"
         THEN Add(AreaPointedAt(sys, sys.SurfacePtrArray[SurfNum], garbage),
                  TotalAreaFrom(sys, SurfNum + 1, garbage))
         ELSE TotalAreaFrom(sys, SurfNum + 1, garbage)

\* The local SurfNum2 after FirstTimeInit's block: the last floor the loops
\* over the direct and then the indirect system met, 0 for unassigned.
SurfNum2AfterFirstTime(d, i) == FloorFrom(i, 1, FloorFrom(d, 1, 0))

\* The time step reset's search loop, which stops one short of the system's
\* last surface: "for (SurfNum = 1; SurfNum < NumOfSurfaces; ++SurfNum)".
FloorBeforeLast(sys, SurfNum2) ==
    FloorFrom([sys EXCEPT !.NumOfSurfaces = sys.NumOfSurfaces - 1], 1, SurfNum2)

\* The records after "if (FirstTimeInit)": dimensioned and zero.
AveragesDimensioned(a) ==
    [a EXCEPT !.ZeroSourceSumHATsurf = Zero,
              !.QRadSysSrcAvg = [s \in Surfaces |-> Zero],
              !.LastQRadSysSrc = [s \in Surfaces |-> Zero],
              !.LastSysTimeElapsed = [s \in Surfaces |-> Zero]]

\* The module-wide reset at the beginning of an environment.
AveragesOfNewEnvrn(a) ==
    [ZeroSourceSumHATsurf |-> Zero,
     QRadSysSrcAvg        |-> ZeroedArray(a.QRadSysSrcAvg),
     LastQRadSysSrc       |-> ZeroedArray(a.LastQRadSysSrc),
     LastSysTimeElapsed   |-> ZeroedArray(a.LastSysTimeElapsed),
     LastTimeStepSys      |-> ZeroedArray(a.LastTimeStepSys)]

\* The reset at the beginning of a time step, for the surface SurfNum2.
AveragesOfNewTimeStep(a, SurfNum2) ==
    [ZeroSourceSumHATsurf |-> SumHATsurfOfZone,
     QRadSysSrcAvg        |-> ZeroedAt(a.QRadSysSrcAvg, SurfNum2),
     LastQRadSysSrc       |-> ZeroedAt(a.LastQRadSysSrc, SurfNum2),
     LastSysTimeElapsed   |-> ZeroedAt(a.LastSysTimeElapsed, SurfNum2),
     LastTimeStepSys      |-> ZeroedAt(a.LastTimeStepSys, SurfNum2)]

\* The flags of one system type.
ScanFlagOf(SystemType) ==
    IF SystemType = DirectSystem THEN "MyPlantScanFlagDRink" ELSE "MyPlantScanFlagIRink"

EnvrnFlagOf(SystemType) ==
    IF SystemType = DirectSystem THEN "MyEnvrnFlagDRink" ELSE "MyEnvrnFlagIRink"

\* A scan that does not wait for PlantLoop to be allocated.
ScanDueWhenFlagged(f, SystemType) == f[ScanFlagOf(SystemType)]

\* The plant scan of a system is due: its flag is set and PlantLoop allocated.
ScanDue(f, SystemType) == f[ScanFlagOf(SystemType)] /\ plant.Allocated

\* ScanPlantLoopsForObject is called: the scan is due and the inlet node set.
Scans(f, sys, SystemType) == ScanDue(f, SystemType) /\ sys.ColdRefrigInNode > 0

\* The scan flag after the scan block.
ScanFlagAfter(f, sys, SystemType) ==
    IF ScanDue(f, SystemType) THEN FALSE
    ELSE f[ScanFlagOf(SystemType)] /\ plant.AnyPlantInModel

AfterScan(f, sys, SystemType) ==
    [f EXCEPT ![ScanFlagOf(SystemType)] = ScanFlagAfter(f, sys, SystemType)]

\* A module-wide reset on every call at the beginning of an environment.
GeneralResetOnEveryEnvrnCall(f, BeginEnvrnFlag) == BeginEnvrnFlag

\* The module-wide reset runs: "if (BeginEnvrnFlag && MyEnvrnFlagGeneral)".
GeneralReset(f, BeginEnvrnFlag) == BeginEnvrnFlag /\ f.MyEnvrnFlagGeneral

\* The report fields of the system are zeroed:
\* "if (BeginEnvrnFlag && MyEnvrnFlagDRink(SysNum))".
SystemReset(f, SystemType, BeginEnvrnFlag) == BeginEnvrnFlag /\ f[EnvrnFlagOf(SystemType)]

\* An environment flag after its block: cleared by the reset, set again by a
\* call with BeginEnvrnFlag false.
EnvrnFlagAfter(flag, didReset, BeginEnvrnFlag) ==
    IF ~BeginEnvrnFlag THEN TRUE ELSE IF didReset THEN FALSE ELSE flag

AfterEnvrn(f, SystemType, BeginEnvrnFlag) ==
    [f EXCEPT !.MyEnvrnFlagGeneral =
                  EnvrnFlagAfter(f.MyEnvrnFlagGeneral, GeneralReset(f, BeginEnvrnFlag),
                                 BeginEnvrnFlag),
              ![EnvrnFlagOf(SystemType)] =
                  EnvrnFlagAfter(f[EnvrnFlagOf(SystemType)],
                                 SystemReset(f, SystemType, BeginEnvrnFlag),
                                 BeginEnvrnFlag)]

\* The report fields of a system at the beginning of an environment.
ReportZeroed(sys) == [sys EXCEPT !.RefrigInletTemp = Zero, !.RefrigMassFlowRate = Zero]

\* The time step reset runs: "if (BeginTimeStepFlag && FirstHVACIteration)".
TimeStepReset(BeginTimeStepFlag, FirstHVACIteration) == BeginTimeStepFlag /\ FirstHVACIteration

\* The calls InitIndoorIceRink makes, in order.
InitCalls(scanned, nodesInit, sys) ==
    (IF scanned THEN <<Call("ScanPlantLoopsForObject", Zero, Zero)>> ELSE <<>>)
    \o (IF nodesInit THEN <<Call("InitComponentNodes", Zero, sys.RefrigFlowMaxCool)>> ELSE <<>>)
    \o <<Call("SetComponentFlowRate", Zero, Zero)>>

Bump(counts, SystemType) == [counts EXCEPT ![SystemType] = counts[SystemType] + 1]

\* What is known of a call: its flags, and what it did.
InitCall(SystemType, BeginEnvrnFlag, f, scanned, general, system, reset, SurfNum2) ==
    [Done               |-> TRUE,
     SystemType         |-> SystemType,
     BeginEnvrnFlag     |-> BeginEnvrnFlag,
     PrevBeginEnvrnFlag |-> last.BeginEnvrnFlag,
     Scanned            |-> scanned,
     GeneralReset       |-> general,
     SystemReset        |-> system,
     TimeStepReset      |-> reset,
     SurfNum2           |-> SurfNum2,
     Scans              |-> IF scanned THEN Bump(last.Scans, SystemType) ELSE last.Scans,
     ResetsInRun        |-> IF ~BeginEnvrnFlag THEN <<0, 0>>
                            ELSE IF system THEN Bump(last.ResetsInRun, SystemType)
                                 ELSE last.ResetsInRun]

\* The system a call is for.
SystemOf(SystemType) == IF SystemType = DirectSystem THEN DRink ELSE IRink

\* DRink(1) after FirstTimeInit's block, which adds the floor areas of both
\* systems to DRink(1).SurfaceArea.
DRinkAfterFirstTime(first, garbage) ==
    IF first
    THEN [DRink EXCEPT !.SurfaceArea =
             Add(Add(DRink.SurfaceArea, TotalAreaFrom(DRink, 1, garbage)),
                 TotalAreaFrom(IRink, 1, garbage))]
    ELSE DRink

\* The surface the time step reset hits: the floor its loop found, or what the
\* local SurfNum2 held before: the floor of FirstTimeInit's block in the
\* first call, an unassigned value otherwise.
ResetSurfaces(sys, first) ==
    IF FloorBeforeLast(sys, IF first THEN SurfNum2AfterFirstTime(DRink, IRink) ELSE 0) # 0
    THEN {FloorBeforeLast(sys, IF first THEN SurfNum2AfterFirstTime(DRink, IRink) ELSE 0)}
    ELSE 0 .. TotSurfaces

\* The state a call leaves.
InitResult(isFatal, f, d, i, a, log, call) ==
    [fatal |-> isFatal, flags |-> f, DRink |-> d, IRink |-> i, avg |-> a,
     calls |-> log, last |-> call]

\* The program ends within the call: what the call had done by then is lost
\* with it, and the state is left as the call found it.
InitEndsProgram == InitResult(TRUE, flags, DRink, IRink, avg, calls, last)

\* The call runs to its end.  The time step reset writes LastTimeStepSys(SurfNum2),
\* an element of an array that was never dimensioned, which may end the program.
InitRunsOn(SystemType, BeginEnvrnFlag, f, d, a, scanned, general, system, reset, SurfNum2, crash) ==
    IF reset /\ crash THEN InitEndsProgram
    ELSE
    InitResult(FALSE,
               AfterEnvrn(AfterScan(f, SystemOf(SystemType), SystemType),
                          SystemType, BeginEnvrnFlag),
               IF SystemType = DirectSystem /\ system THEN ReportZeroed(d) ELSE d,
               IF SystemType = IndirectSystem /\ system THEN ReportZeroed(IRink) ELSE IRink,
               IF reset
               THEN AveragesOfNewTimeStep(IF general THEN AveragesOfNewEnvrn(a) ELSE a,
                                          SurfNum2)
               ELSE IF general THEN AveragesOfNewEnvrn(a) ELSE a,
               InitCalls(scanned,
                         /\ system
                         /\ ~ScanFlagAfter(f, SystemOf(SystemType), SystemType)
                         /\ SystemOf(SystemType).ColdRefrigInNode > 0,
                         SystemOf(SystemType)),
               InitCall(SystemType, BeginEnvrnFlag, f, scanned, general, system, reset,
                        SurfNum2))

\* The call from the scan block on, f, d and a being the flags, DRink(1) and
\* the records after the blocks of MyOneTimeFlag and FirstTimeInit.  A scan
\* that sets errFlag ends the program there.
InitFromScan(SystemType, reset, BeginEnvrnFlag, f, d, a, errFlag, crash, SurfNum2) ==
    IF Scans(f, SystemOf(SystemType), SystemType) /\ errFlag
    THEN InitResult(TRUE, f, d, IRink, a, <<Call("ScanPlantLoopsForObject", Zero, Zero)>>,
                    InitCall(SystemType, BeginEnvrnFlag, f, TRUE, FALSE, FALSE, FALSE, 0))
    ELSE InitRunsOn(SystemType, BeginEnvrnFlag, f, d, a,
                    Scans(f, SystemOf(SystemType), SystemType),
                    GeneralReset(f, BeginEnvrnFlag),
                    SystemReset(f, SystemType, BeginEnvrnFlag),
                    reset, SurfNum2, crash)

\* InitIndoorIceRink(FirstHVACIteration, 1, SystemType, InitErrorsFound) under
\* the flag BeginEnvrnFlag of the simulation; reset is what FirstHVACIteration
\* and the flag BeginTimeStepFlag make of the time step reset's condition.
InitIndoorIceRink(SystemType, reset, BeginEnvrnFlag) ==
    /\ ~fatal
    /\ \E garbage \in (IF flags.FirstTimeInit THEN UninitializedReal ELSE {Zero}),
          errFlag \in (IF Scans(AfterOneTime(flags), SystemOf(SystemType), SystemType)
                       THEN BOOLEAN ELSE {FALSE}),
          crash \in (IF reset THEN BOOLEAN ELSE {FALSE}) :
       \E SurfNum2 \in (IF reset /\ ~crash
                        THEN ResetSurfaces(SystemOf(SystemType), flags.FirstTimeInit)
                        ELSE {0}) :
       \E r \in {InitFromScan(SystemType, reset, BeginEnvrnFlag,
                              [AfterOneTime(flags) EXCEPT !.FirstTimeInit = FALSE],
                              DRinkAfterFirstTime(flags.FirstTimeInit, garbage),
                              IF flags.FirstTimeInit THEN AveragesDimensioned(avg) ELSE avg,
                              errFlag, crash, SurfNum2)} :
         /\ fatal' = r.fatal
         /\ flags' = r.flags
         /\ DRink' = r.DRink
         /\ IRink' = r.IRink
         /\ avg' = r.avg
         /\ calls' = r.calls
         /\ last' = r.last
    /\ OperatingMode' = NotOperating
    /\ botc' = NoBOTC /\ eval' = NoEval /\ dhx' = NoDHX
    /\ UNCHANGED <<Node, HB, HeatTransferAlgorithm, Alphas, SchedValue, FluidCp, Ice,
                   QRadSysSource, hx, plant>>

\* The values the time step reset's condition takes over the values of
\* FirstHVACIteration and BeginTimeStepFlag.
TimeStepResets ==
    {TimeStepReset(BeginTimeStepFlag, FirstHVACIteration) :
        BeginTimeStepFlag \in BOOLEAN, FirstHVACIteration \in BOOLEAN}

\* The calls of the simulation, for the direct and for the indirect system.
InitDirectSystem ==
    \E reset \in TimeStepResets, BeginEnvrnFlag \in BOOLEAN :
      InitIndoorIceRink(DirectSystem, reset, BeginEnvrnFlag)

InitIndirectSystem ==
    \E reset \in TimeStepResets, BeginEnvrnFlag \in BOOLEAN :
      InitIndoorIceRink(IndirectSystem, reset, BeginEnvrnFlag)

\* Something other than InitIndoorIceRink has run since the last call.
BetweenInitCalls == [last EXCEPT !.Done = FALSE]

\* The plant manager allocates PlantLoop.
PlantLoopsAllocated ==
    /\ ~fatal
    /\ ~plant.Allocated
    /\ plant.AnyPlantInModel
    /\ plant' = [plant EXCEPT !.Allocated = TRUE]
    /\ last' = BetweenInitCalls
    /\ UNCHANGED <<DRink, IRink, Node, HB, HeatTransferAlgorithm, Alphas, SchedValue,
                   FluidCp, Ice, QRadSysSource, OperatingMode, calls, botc, hx, dhx,
                   eval, fatal, flags, avg>>

\* An average source of a surface other than zero.
AveragedSource == R(-5, 0)

\* QRadSysSrcAvg is declared extern: the rest of the program writes the
\* average sources of the surfaces while the systems run.
AveragesUpdated ==
    /\ ~fatal
    /\ ~flags.FirstTimeInit
    /\ avg' = [avg EXCEPT !.QRadSysSrcAvg = [s \in Surfaces |-> AveragedSource]]
    /\ last' = BetweenInitCalls
    /\ UNCHANGED <<DRink, IRink, Node, HB, HeatTransferAlgorithm, Alphas, SchedValue,
                   FluidCp, Ice, QRadSysSource, OperatingMode, calls, botc, hx, dhx,
                   eval, fatal, flags, plant>>

(***************************************************************************)
(* The systems after input                                                 *)
(***************************************************************************)
\* A direct system as the constructor of DirectRefrigSysData and
\* GetIndoorIceRink leave it, for a control type keyword, an inlet node and
\* a list of surfaces.
DirectSystemInput(alpha, node, list) ==
    [ControlType        |-> ProcessControlType(alpha),
     ColdRefrigInNode   |-> node,
     NumOfSurfaces      |-> Len(list),
     SurfacePtrArray    |-> list,
     NumCircuits        |-> Zero,
     TubeDiameter       |-> R(2, -2),
     TubeLength         |-> R(100, 0),
     RefrigFlowMaxCool  |-> Zero,
     RefrigFlowMinCool  |-> Zero,
     RefOutBOTCCtrlTemp |-> Zero,
     RefrigInletTemp    |-> Zero,
     RefrigMassFlowRate |-> Zero,
     SurfaceArea        |-> Zero,
     CondCausedShutDown |-> FALSE]

\* An indirect system with its input read: a list of surfaces, the flow
\* limits, the outlet temperature target, the tube and the brine.
IndirectSystemInput(list, MinCool, MaxCool, Target, Length, Type, Conc) ==
    [ColdRefrigInNode   |-> 2,
     NumOfSurfaces      |-> Len(list),
     SurfacePtrArray    |-> list,
     TubeDiameter       |-> R(2, -2),
     TubeLength         |-> Length,
     RefrigFlowMaxCool  |-> MaxCool,
     RefrigFlowMinCool  |-> MinCool,
     RefOutBOTCtrlTemp  |-> Target,
     RefrigInletTemp    |-> Zero,
     RefrigMassFlowRate |-> Zero,
     CondCausedShutDown |-> FALSE,
     RefrigType         |-> Type,
     Concentration      |-> Conc]

\* Node 1 is the inlet of the direct system, node 2 that of the indirect one.
NodeDefault ==
    [n \in 1 .. 2 |-> [MassFlowRate |-> Zero,
                        Temp |-> IF n = 1 THEN Zero ELSE R(-12, 0)]]

InitCommon ==
    /\ Node = NodeDefault
    /\ \E a \in HeatTransferModels : HeatTransferAlgorithm = [s \in Surfaces |-> a]
    /\ HB = [s \in Surfaces |-> HBWarmSlab]
    /\ SchedValue = One
    /\ FluidCp = R(3000, 0)
    /\ Ice = [TempSurfIn |-> R(-5, 0), SetPointTemp |-> R(-3, 0)]
    /\ QRadSysSource = [s \in Surfaces |-> Zero]
    /\ OperatingMode = NotOperating
    /\ calls = <<>>
    /\ botc = NoBOTC
    /\ hx = NoHX
    /\ dhx = NoDHX
    /\ InitStatics
    /\ eval = NoEval
    /\ fatal = FALSE

Init ==
    /\ \E alpha \in ControlTypeInputs, node \in 0 .. 1, list \in SurfaceLists :
         /\ Alphas = [i \in {5} |-> alpha]
         /\ DRink = DirectSystemInput(Alphas[5], node, list)
    /\ IRink = IndirectSystemInput(<<1>>, Zero, Zero, Zero, R(100, 0), CaCl2, R(25, 0))
    /\ InitCommon

Next ==
    \/ PlantSetsInletNode
    \/ ScheduleChanges
    \/ CalcDirectIndoorIceRinkSys
    \/ BOTCIndirectSystem

Spec == Init /\ [][Next]_vars

(***************************************************************************)
(* The control resolver on its own                                         *)
(***************************************************************************)
\* The flow limits, outlet temperature targets and tube lengths of the input.
MinCoolFlows == {Zero, R(2, -6)}

MaxCoolFlows == {R(1, -5), R(2, 0)}

OutletTargets == {R(-8, 0), Zero}

TubeLengths == {R(100, 0), R(1000, 0)}

\* The ice surface temperatures the heat balance can report.
IceSurfaceTemps == {R(-5, 0), R(-1, 0)}

\* A direct system with the flow limits and the target of its input read.
DirectSystemConfigured(list, MinCool, MaxCool, Target, Length) ==
    [DirectSystemInput("RefrigOutletTemperature", 1, list)
        EXCEPT !.RefrigFlowMinCool = MinCool, !.RefrigFlowMaxCool = MaxCool,
               !.RefOutBOTCCtrlTemp = Target, !.TubeLength = Length]

InitResolver ==
    /\ \E list \in SurfaceLists, MinCool \in MinCoolFlows, MaxCool \in MaxCoolFlows,
          Target \in OutletTargets, Length \in TubeLengths :
         /\ DRink = DirectSystemConfigured(list, MinCool, MaxCool, Target, Length)
         /\ IRink = IndirectSystemInput(list, MinCool, MaxCool, Target, Length,
                                        CaCl2, R(25, 0))
    /\ \E temp \in NodeTemps :
         Node = [NodeDefault EXCEPT ![2].Temp = temp]
    /\ HB \in HBProfiles
    /\ HeatTransferAlgorithm = [s \in Surfaces |-> HeatTransferModel_CTF]
    /\ Alphas = [i \in {5} |-> "RefrigOutletTemperature"]
    /\ SchedValue = One
    /\ FluidCp = R(3000, 0)
    /\ Ice \in [TempSurfIn : IceSurfaceTemps, SetPointTemp : {R(-3, 0)}]
    /\ QRadSysSource = [s \in Surfaces |-> Zero]
    /\ OperatingMode = NotOperating
    /\ calls = <<>>
    /\ botc = NoBOTC
    /\ hx = NoHX
    /\ dhx = NoDHX
    /\ InitStatics
    /\ eval = NoEval
    /\ fatal = FALSE

NextResolver ==
    \/ BOTCDirectSystem
    \/ BOTCIndirectSystem
    \/ STCDirectSystem

SpecResolver == InitResolver /\ [][NextResolver]_vars

(***************************************************************************)
(* The effectiveness of an indirect system on its own                      *)
(***************************************************************************)
\* The brine concentrations of the input, in percent.
Concentrations == {R(c, 0) : c \in 24 .. 31}

\* Inlet temperatures across the range of the property tables: below the grid,
\* every grid temperature, temperatures between two of them, and above the grid.
BrineTemps ==
    {R(-12, 0), R(-105, -1), R(-95, -1), R(-25, -1), R(-5, -1), R(1, 0), R(2, 0)}
    \cup {Temps[i] : i \in 1 .. NumOfPropDivisions}

\* Inlet flows: a laminar and a turbulent one for every fluid, and the flows
\* at which the Reynolds number of the refrigerant and of the 25% CaCl2 brine
\* below -10 C is MaxLaminarRe.
BrineFlows == {R(1, -3), R(6877, -6), R(1, -1), R(1999, -4), R(5, 0)}

\* The tube lengths of the input, in m.
HXTubeLengths == {R(10, 0), R(100, 0)}

InitHX ==
    /\ \E Type \in {CaCl2, EG}, Conc \in Concentrations, Length \in HXTubeLengths :
         /\ DRink = DirectSystemConfigured(<<1>>, Zero, Zero, Zero, Length)
         /\ IRink = IndirectSystemInput(<<1>>, Zero, Zero, Zero, Length, Type, Conc)
    /\ \E temp \in BrineTemps, flow \in BrineFlows :
         Node = [n \in 1 .. 2 |-> [MassFlowRate |-> flow, Temp |-> temp]]
    /\ HB = [s \in Surfaces |-> HBWarmSlab]
    /\ HeatTransferAlgorithm = [s \in Surfaces |-> HeatTransferModel_CTF]
    /\ Alphas = [i \in {5} |-> "RefrigOutletTemperature"]
    /\ SchedValue = One
    /\ FluidCp = R(3000, 0)
    /\ Ice = [TempSurfIn |-> R(-5, 0), SetPointTemp |-> R(-3, 0)]
    /\ QRadSysSource = [s \in Surfaces |-> Zero]
    /\ OperatingMode = NotOperating
    /\ calls = <<>>
    /\ botc = NoBOTC
    /\ hx = NoHX
    /\ dhx = NoDHX
    /\ InitStatics
    /\ eval = NoEval
    /\ fatal = FALSE

NextHX ==
    \/ IRinkHXEffectTerm
    \/ DRinkHXEffectTerm

SpecHX == InitHX /\ [][NextHX]_vars

(***************************************************************************)
(* The initialization of the systems on its own                            *)
(***************************************************************************)
\* The surfaces of a rink: the first one or two surfaces of the building, a
\* floor among them.
RinkSurfaceLists ==
    {l \in SurfaceLists :
        /\ Len(l) \in 1 .. 2
        /\ \A i \in DOMAIN l : l[i] \in 1 .. 2
        /\ \E i \in DOMAIN l : Surface[l[i]].Class = "Floor"}

InitOfInit ==
    /\ \E node \in 0 .. 1, list \in RinkSurfaceLists :
         /\ DRink = DirectSystemInput("IceSurfaceTemperature", node, list)
         /\ IRink = IndirectSystemInput(list, Zero, Zero, Zero, R(100, 0), CaCl2, R(25, 0))
    /\ Alphas = [i \in {5} |-> "IceSurfaceTemperature"]
    /\ Node = [NodeDefault EXCEPT ![1].MassFlowRate = R(20, 0)]
    /\ HeatTransferAlgorithm = [s \in Surfaces |-> HeatTransferModel_CTF]
    /\ HB = [s \in Surfaces |-> HBWarmSlab]
    /\ SchedValue = One
    /\ FluidCp = R(3000, 0)
    /\ Ice = [TempSurfIn |-> R(-5, 0), SetPointTemp |-> R(-3, 0)]
    /\ QRadSysSource = [s \in Surfaces |-> Zero]
    /\ OperatingMode = NotOperating
    /\ calls = <<>>
    /\ botc = NoBOTC
    /\ hx = NoHX
    /\ dhx = NoDHX
    /\ eval = NoEval
    /\ fatal = FALSE
    /\ flags = FlagsAtStart
    /\ avg = AveragesAtStart
    /\ \E AnyPlantInModel \in BOOLEAN : plant = PlantAtStart(AnyPlantInModel)
    /\ last = NoInitCall

NextInit ==
    \/ InitDirectSystem
    \/ InitIndirectSystem
    \/ PlantLoopsAllocated
    \/ AveragesUpdated

SpecInit == InitOfInit /\ [][NextInit]_vars

(***************************************************************************)
(* The calls of a simulation: initialization, evaluation, resolver         *)
(***************************************************************************)
\* A direct system under outlet temperature control with an inlet node that
\* carries flow and a rink of one or two surfaces, before the first call of
\* InitIndoorIceRink.
InitOfCalls ==
    /\ Alphas = [i \in {5} |-> "RefrigOutletTemperature"]
    /\ \E list \in RinkSurfaceLists : DRink = DirectSystemInput(Alphas[5], 1, list)
    /\ IRink = IndirectSystemInput(<<1>>, Zero, Zero, Zero, R(100, 0), CaCl2, R(25, 0))
    /\ Node = [NodeDefault EXCEPT ![1].MassFlowRate = R(20, 0)]
    /\ HeatTransferAlgorithm = [s \in Surfaces |-> HeatTransferModel_CTF]
    /\ HB = [s \in Surfaces |-> HBWarmSlab]
    /\ SchedValue = One
    /\ FluidCp = R(3000, 0)
    /\ Ice = [TempSurfIn |-> R(-5, 0), SetPointTemp |-> R(-3, 0)]
    /\ QRadSysSource = [s \in Surfaces |-> Zero]
    /\ OperatingMode = NotOperating
    /\ calls = <<>>
    /\ botc = NoBOTC
    /\ hx = NoHX
    /\ dhx = NoDHX
    /\ eval = NoEval
    /\ fatal = FALSE
    /\ InitStatics

NextCalls ==
    \/ InitDirectSystem
    \/ InitIndirectSystem
    \/ CalcDirectIndoorIceRinkSys
    \/ BOTCIndirectSystem

SpecCalls == InitOfCalls /\ [][NextCalls]_vars

(***************************************************************************)
(* Properties                                                              *)
(***************************************************************************)
\* The calls of the last evaluation, by callee.
ActuatorCalls == SelectSeq(calls, LAMBDA c : c.fn = "SetComponentFlowRate")

EffectivenessCalls ==
    SelectSeq(calls, LAMBDA c : c.fn \in {"CalcDRinkHXEffectTerm", "CalcIRinkHXEffectTerm"})

ResolverCalls == SelectSeq(calls, LAMBDA c : c.fn \in {"BOTC", "STC"})

\* The last flow handed to the plant is zero.
ZeroFlowRequested ==
    /\ ActuatorCalls # <<>>
    /\ ActuatorCalls[Len(ActuatorCalls)].arg = Zero

\* C1 (as stated): an evaluation of an available direct system with incoming
\* flow above zero whose computed heat source for the rink floor is zero or
\* more ends with a flow of zero requested from the plant and with the floor's
\* QRadSysSource at zero.
C1_ReverseHeatFlowCutoff ==
    (/\ eval.Done
     /\ eval.Available
     /\ eval.Branch = "flow"
     /\ HasFloor(DRink)
     /\ Ge(eval.HeatSource, Zero))
    => (ZeroFlowRequested /\ QRadSysSource[FloorOf(DRink)] = Zero)

\* An evaluation that heats the floor and leaves the flow as it was.
C1_HeatingFlowKept ==
    /\ eval.Done
    /\ eval.Available
    /\ eval.Branch = "flow"
    /\ HasFloor(DRink)
    /\ Gt(eval.HeatSource, Zero)
    /\ ActuatorCalls = <<>>
    /\ QRadSysSource[FloorOf(DRink)] = eval.HeatSource

\* C2 (as stated): an evaluation whose incoming flow is zero or less requests
\* a flow of zero from the plant, leaves the floor's heat source at zero, and
\* calls neither the effectiveness calculation nor the control resolver.
C2_IdlePath ==
    (eval.Done /\ eval.Branch = "idle")
    => (/\ ZeroFlowRequested
        /\ HasFloor(DRink) => QRadSysSource[FloorOf(DRink)] = Zero
        /\ EffectivenessCalls = <<>>
        /\ ResolverCalls = <<>>)

\* An idle evaluation that has called the resolver and not the plant.
C2_IdleAfterResolver ==
    /\ eval.Done
    /\ eval.Branch = "idle"
    /\ Le(eval.RefrigMassFlow, Zero)
    /\ ResolverCalls # <<>>
    /\ ActuatorCalls = <<>>

\* C3 (as stated): every evaluation of a system calls SetComponentFlowRate
\* exactly once, whatever its path.
C3_ActuatorCalledOnce ==
    (eval.Done /\ ~fatal) => Len(ActuatorCalls) = 1

\* An evaluation with incoming flow that ends without a call of the plant.
C3_NoActuatorCall ==
    /\ eval.Done
    /\ ~fatal
    /\ eval.Branch = "flow"
    /\ EffectivenessCalls # <<>>
    /\ Len(ActuatorCalls) = 0

\* C4 (as stated): in an evaluation of an available system with incoming
\* flow above zero and no cut-off, the flow handed to the plant is the flow
\* the active resolver returned.
C4_ActuatorGetsResolverFlow ==
    (eval.Done /\ eval.Available /\ eval.Branch = "flow" /\ ~eval.CutOff)
    => (Len(ActuatorCalls) = 1 /\ ActuatorCalls[1].arg = eval.mdot)

\* An evaluation whose resolver result reaches no call of the plant.
C4_ResolverFlowDropped ==
    /\ eval.Done
    /\ eval.Available
    /\ eval.Branch = "flow"
    /\ ~eval.CutOff
    /\ eval.Resolver = "BOTC"
    /\ ResolverCalls # <<>>
    /\ ResolverCalls[1].ret = eval.mdot
    /\ ActuatorCalls = <<>>

\* C5: the effectiveness calculation is never called with a mass flow of
\* zero or less: CalcDirectIndoorIceRinkComps calls it only past its test of
\* the incoming flow, and BOTC passes its positive guess.
C5_EffectivenessFlowPositive ==
    \A i \in DOMAIN calls :
        calls[i].fn \in {"CalcDRinkHXEffectTerm", "CalcIRinkHXEffectTerm"}
        => Gt(calls[i].arg, Zero)

\* An evaluation that has called the effectiveness calculation with the
\* incoming flow of the inlet node.
C5_EffectivenessCalled ==
    /\ eval.Done
    /\ eval.Branch = "flow"
    /\ \E i \in DOMAIN calls :
         /\ calls[i].fn = "CalcDRinkHXEffectTerm"
         /\ calls[i].arg = eval.RefrigMassFlow
         /\ calls[i].arg = Node[DRink.ColdRefrigInNode].MassFlowRate

\* C6 (as stated): whenever the outlet temperature BOTC computes is at or
\* below the desired outlet temperature, BOTC returns the system's
\* RefrigFlowMinCool and the system's shut-down flag is true.
C6_TargetMetShutsDown ==
    (botc.SystemType = IndirectSystem /\ botc.Floors > 0 /\ botc.TargetMet)
    => (botc.Req = IRink.RefrigFlowMinCool /\ IRink.CondCausedShutDown)

\* BOTC has returned a minimum flow above zero with the target met, and the
\* shut-down flag is as the constructor left it.
C6_TargetMetNoShutDown ==
    /\ botc.SystemType = IndirectSystem
    /\ botc.Floors > 0
    /\ Le(botc.RefrigOutTemp, botc.Desired)
    /\ botc.Req = IRink.RefrigFlowMinCool
    /\ Gt(botc.Req, Zero)
    /\ ~IRink.CondCausedShutDown

\* The flow candidate of the direct system at its floor: the relation BOTC
\* solves for an indirect system, at the direct system's desired outlet
\* temperature, with the effectiveness and specific heat of the refrigerant
\* at the flow of 20 kg/s the direct branch assumes.
C7_DirectCandidateAt(H, c, con) ==
    RequiredFlow(CouplingCk(c, con), CouplingCl(c, con), botc.RefrigInTemp, botc.Desired,
                 H.Eff, botc.PipeArea, H.Props.Cpactual)

C7_DirectCandidate ==
    C7_DirectCandidateAt(
        CalcDRinkHXEffectTerm(botc.RefrigInTemp, R(20, 0), DRink.TubeLength,
                              DRink.TubeDiameter),
        HB[FloorOf(DRink)], Construct[Surface[FloorOf(DRink)].Construction])

C8_ResultWithinBounds ==
    botc.SystemType # 0
    => (Le(botc.Min, botc.Req) /\ Le(botc.Req, botc.Max))

\* BOTC has returned its candidate, which is below zero.
C8_NegativeFlowReturned ==
    /\ botc.SystemType = IndirectSystem
    /\ botc.Floors > 0
    /\ ~botc.TargetMet
    /\ botc.Req = botc.Candidate
    /\ Lt(botc.Req, Zero)
    /\ Le(Zero, botc.Min)

\* The last call is one of STC.
STCCalled == calls # <<>> /\ calls[Len(calls)].fn = "STC"

\* C9 (as stated): when the ice surface temperature is at or below the
\* setpoint, STC yields the system's RefrigFlowMinCool and shut-down is
\* reported true.
C9_SurfaceTargetMet ==
    (STCCalled /\ Le(Ice.TempSurfIn, Ice.SetPointTemp))
    => (calls[Len(calls)].ret = DRink.RefrigFlowMinCool /\ DRink.CondCausedShutDown)

\* STC has returned zero for a system whose minimum flow is above zero, with
\* the ice below its setpoint.
C9_STCReturnsZero ==
    /\ STCCalled
    /\ Lt(Ice.TempSurfIn, Ice.SetPointTemp)
    /\ calls[Len(calls)].ret = Zero
    /\ Gt(DRink.RefrigFlowMinCool, Zero)
    /\ ~DRink.CondCausedShutDown

\* The column of a concentration: its own from 25 to 29, the 30% one from 30 on.
C10_Bucket(Concentration) ==
    IF Ge(Concentration, R(30, 0)) THEN 30
    ELSE CHOOSE c \in 25 .. 29 : R(c, 0) = Concentration

\* The properties read from the tables of one column.
C10_PropertiesOfColumn(RefrigType, col, Temperature) ==
    IF RefrigType = CaCl2
    THEN Properties(MuCacl2[col - 24], ConductivityCacl2[col - 24], PrCacl2[col - 24],
                    CpCacl2[col - 24], Temperature)
    ELSE Properties(MuEG[col - 24], ConductivityEG[col - 24], PrEG[col - 24],
                    CpEG[col - 24], Temperature)

\* C10 (as stated): for both brines a concentration of 25 to 29 reads the
\* columns of that concentration and one of 30 or more reads the 30%
\* columns, and the caller's concentration is as it was.
C10_ConcentrationBucket ==
    (hx.RefrigType # 0 /\ Ge(hx.Given, R(25, 0)))
    => (/\ hx.Props = C10_PropertiesOfColumn(hx.RefrigType, C10_Bucket(hx.Given),
                                             hx.Temperature)
        /\ IRink.Concentration = hx.Given)

\* A brine of 28% has been given the properties of the 27% columns, which
\* are not those of the 28% columns.
C10_Reads27Column ==
    /\ hx.RefrigType = CaCl2
    /\ hx.Given = R(28, 0)
    /\ hx.Column = 27
    /\ hx.Props = C10_PropertiesOfColumn(CaCl2, 27, hx.Temperature)
    /\ hx.Props # C10_PropertiesOfColumn(CaCl2, 28, hx.Temperature)

\* The four properties of a lookup, without the rows it read.
PropertyValues(P) ==
    [MUactual |-> P.MUactual, Kactual |-> P.Kactual, PRactual |-> P.PRactual,
     Cpactual |-> P.Cpactual]

\* Row i of the refrigerant's tables, and of the tables of one brine column.
RowOfRefrigerant(i) ==
    [MUactual |-> Mu[i], Kactual |-> Conductivity[i], PRactual |-> Pr[i],
     Cpactual |-> Cp[i]]

RowOfBrine(RefrigType, col, i) ==
    IF RefrigType = CaCl2
    THEN [MUactual |-> MuCacl2[col - 24][i], Kactual |-> ConductivityCacl2[col - 24][i],
          PRactual |-> PrCacl2[col - 24][i], Cpactual |-> CpCacl2[col - 24][i]]
    ELSE [MUactual |-> MuEG[col - 24][i], Kactual |-> ConductivityEG[col - 24][i],
          PRactual |-> PrEG[col - 24][i], Cpactual |-> CpEG[col - 24][i]]

\* Below the grid a lookup yields the lowest row, at and above its highest
\* temperature the top row, and it reads no row outside the tables.
C11_Clamped(Temperature, P, Lowest, Top) ==
    /\ Lt(Temperature, Temps[1]) => PropertyValues(P) = Lowest
    /\ Ge(Temperature, Temps[NumOfPropDivisions]) => PropertyValues(P) = Top
    /\ P.Rows \subseteq 1 .. NumOfPropDivisions

\* C11: for every temperature below -10 C the viscosity, conductivity,
\* Prandtl number and specific heat of a lookup are those of the lowest row
\* of the tables, for every temperature of 0 C or more those of the top row;
\* no error is raised and no row outside 1..11 is read.  This holds of the
\* refrigerant of a direct system and of the brine of an indirect one.
C11_TemperatureClamping ==
    /\ ~fatal
    /\ dhx.SysNum # 0
       => C11_Clamped(dhx.Temperature, dhx.Props, RowOfRefrigerant(1),
                      RowOfRefrigerant(NumOfPropDivisions))
    /\ hx.RefrigType # 0
       => C11_Clamped(hx.Temperature, hx.Props, RowOfBrine(hx.RefrigType, hx.Column, 1),
                      RowOfBrine(hx.RefrigType, hx.Column, NumOfTempDivisions))

\* Both lookups have been made at 2 C, past the last row of the tables, and
\* have read the top row alone.
C11_AboveGridReadsTopRow ==
    /\ dhx.SysNum # 0
    /\ hx.RefrigType # 0
    /\ dhx.Temperature = R(2, 0)
    /\ dhx.Props.Index = NumOfPropDivisions + 1
    /\ dhx.Props.Rows = {NumOfPropDivisions}
    /\ hx.Props.Rows = {NumOfTempDivisions}
    /\ dhx.Props.Cpactual = Cp[NumOfPropDivisions]

\* The linear interpolation between rows i and i + 1 of the tables at Temperature.
C12_Between(Low, High, i, Temperature) ==
    [f \in DOMAIN Low |->
        Add(Low[f], Mul(Div(Sub(Temperature, Temps[i]), Sub(Temps[i + 1], Temps[i])),
                        Sub(High[f], Low[f])))]

\* C12: at every grid temperature Temps(i) the properties of the refrigerant
\* are those of row i exactly, and at a temperature strictly between
\* Temps(i) and Temps(i+1) they are the linear interpolation between rows i
\* and i + 1.
C12_GridPointExactness ==
    dhx.SysNum # 0
    => /\ \A i \in 1 .. NumOfPropDivisions :
            dhx.Temperature = Temps[i] => PropertyValues(dhx.Props) = RowOfRefrigerant(i)
       /\ \A i \in 1 .. NumOfPropDivisions - 1 :
            (Gt(dhx.Temperature, Temps[i]) /\ Lt(dhx.Temperature, Temps[i + 1]))
            => PropertyValues(dhx.Props)
               = C12_Between(RowOfRefrigerant(i), RowOfRefrigerant(i + 1), i,
                             dhx.Temperature)

\* A lookup at the grid temperature -5 C has gone through the interpolation
\* branch and yields row 6.
C12_GridPointInterpolated ==
    /\ dhx.SysNum # 0
    /\ dhx.Temperature = Temps[6]
    /\ dhx.Props.Rows = {6, 7}
    /\ PropertyValues(dhx.Props) = RowOfRefrigerant(6)

\* The Reynolds number of a flow in circuitCount parallel tubes:
\* 4 * massFlow / (pi * mu * diameter * circuitCount).
C13_ReynoldsOfCircuits(massFlow, mu, diameter, circuitCount) ==
    Div(Mul(R(4, 0), massFlow), Mul(Mul(Mul(Pi, mu), diameter), circuitCount))

\* C13 (as stated): the effectiveness calculation of an evaluation of the
\* direct system is given the system's TubeDiameter as its diameter and its
\* TubeLength as its length, and its Reynolds number is
\* 4 * massFlow / (pi * mu * TubeDiameter * circuitCount).
C13_ReynoldsFromTubeDiameter ==
    (eval.Done /\ eval.Branch = "flow" /\ dhx.SysNum # 0)
    => (/\ dhx.TubeDiameter = DRink.TubeDiameter
        /\ dhx.TubeLength = DRink.TubeLength
        /\ dhx.ReD = C13_ReynoldsOfCircuits(dhx.RefrigMassFlow, dhx.Props.MUactual,
                                            DRink.TubeDiameter, DRink.NumCircuits))

\* An evaluation has handed the tube length of 100 m to the effectiveness
\* calculation as the diameter, and the Reynolds number is that of a tube
\* 100 m wide.
C13_LengthPassedAsDiameter ==
    /\ eval.Done
    /\ eval.Branch = "flow"
    /\ dhx.SysNum # 0
    /\ dhx.TubeDiameter = DRink.TubeLength
    /\ dhx.TubeDiameter # DRink.TubeDiameter
    /\ dhx.ReD = ReynoldsNumber(eval.RefrigMassFlow, dhx.Props.MUactual, DRink.TubeLength)
    /\ Lt(dhx.ReD, MaxLaminarRe)
    /\ Ge(ReynoldsNumber(eval.RefrigMassFlow, dhx.Props.MUactual, DRink.TubeDiameter),
          MaxLaminarRe)

\* What an effectiveness calculation worked out, for a flow.
HXView(H, RefrigMassFlow) ==
    [ReD |-> H.ReD, NuD |-> H.NuD, NTU |-> H.NTU, Eff |-> H.Eff, Term |-> H.Term,
     PRactual |-> H.Props.PRactual, Cpactual |-> H.Props.Cpactual,
     RefrigMassFlow |-> RefrigMassFlow]

\* The effectiveness calculations made so far: that of the direct system and
\* that of the indirect one.
HXCalculations ==
    (IF dhx.SysNum # 0 THEN {HXView(dhx, dhx.RefrigMassFlow)} ELSE {})
    \cup (IF hx.RefrigType # 0 THEN {HXView(hx, Node[2].MassFlowRate)} ELSE {})

\* The Colburn equation.
C14_Colburn(ReD, PRactual) ==
    Mul(Mul(R(23, -3), Pow(ReD, R(8, -1))), Pow(PRactual, Div(One, R(3, 0))))

\* C14: in every effectiveness calculation, of the refrigerant, of a CaCl2
\* and of an EG brine, the Nusselt number is 0.023 * Re^0.8 * Pr^(1/3)
\* exactly when Re >= 2300, 2300 included, and 3.66 exactly when Re < 2300.
C14_FlowRegimeSelection ==
    \A H \in HXCalculations :
        /\ Ge(H.ReD, MaxLaminarRe) => H.NuD = C14_Colburn(H.ReD, H.PRactual)
        /\ Lt(H.ReD, MaxLaminarRe) => H.NuD = R(366, -2)
        /\ H.NuD = R(366, -2) => Lt(H.ReD, MaxLaminarRe)

\* The refrigerant flows at a Reynolds number of 2300 and has been given the
\* Nusselt number of the Colburn equation, while the brine at the same flow
\* is laminar.
C14_BoundaryIsTurbulent ==
    /\ dhx.SysNum # 0
    /\ hx.RefrigType = EG
    /\ dhx.ReD = MaxLaminarRe
    /\ dhx.NuD = C14_Colburn(dhx.ReD, dhx.Props.PRactual)
    /\ Gt(dhx.NuD, R(366, -2))
    /\ Lt(hx.ReD, MaxLaminarRe)
    /\ hx.NuD = R(366, -2)

\* The effectiveness of the NTU method.
C15_EffectivenessOf(NTU) ==
    IF Gt(NTU, R(50, 0)) THEN One ELSE Sub(One, Exp(Neg(NTU)))

\* The effectiveness lies in [0, 1], is 1 - e^(-NTU) up to an NTU of 50 and 1
\* above, and does not decrease with NTU.
C15_UnitInterval(Eff) == Le(Zero, Eff) /\ Le(Eff, One)

C15_NonDecreasing(value(_)) ==
    \A H1, H2 \in HXCalculations : Le(H1.NTU, H2.NTU) => Le(value(H1), value(H2))

\* C15 (as stated): the value the effectiveness functions return to their
\* callers lies in [0, 1], does not decrease with NTU, is 1 - e^(-NTU) for an
\* NTU up to 50 and exactly 1 above.
C15_ReturnsEffectiveness ==
    /\ \A H \in HXCalculations :
         C15_UnitInterval(H.Term) /\ H.Term = C15_EffectivenessOf(H.NTU)
    /\ C15_NonDecreasing(LAMBDA H : H.Term)

\* C15 (amended): the effectiveness Eff the functions work out lies in
\* [0, 1], does not decrease with NTU, is 1 - e^(-NTU) for an NTU up to 50 and
\* exactly 1 above; what the functions return to their callers is
\* Eff * RefrigMassFlow * Cpactual.
C15_EffectivenessTerm ==
    /\ \A H \in HXCalculations :
         /\ C15_UnitInterval(H.Eff)
         /\ H.Eff = C15_EffectivenessOf(H.NTU)
         /\ H.Term = Mul(Mul(H.Eff, H.RefrigMassFlow), H.Cpactual)
    /\ C15_NonDecreasing(LAMBDA H : H.Eff)

\* Two calculations at one flow: the brine's NTU and effectiveness are below
\* those of the refrigerant, and what the brine's calculation has returned
\* is above 1.
C15_TermAboveOne ==
    /\ dhx.SysNum # 0
    /\ hx.RefrigType # 0
    /\ Lt(hx.NTU, dhx.NTU)
    /\ Lt(hx.Eff, dhx.Eff)
    /\ Lt(hx.NTU, MaxExpPower)
    /\ Lt(hx.Eff, One)
    /\ Gt(hx.Eff, Zero)
    /\ hx.Term = Mul(Mul(hx.Eff, Node[2].MassFlowRate), hx.Props.Cpactual)
    /\ Gt(hx.Term, One)

\* The magnitude of a Real64, and two values within a hundredth of each other.
Magnitude(a) == IF a[1] < 0 THEN Neg(a) ELSE a

Close(a, b) == Le(Magnitude(Sub(a, b)), Mul(R(1, -2), Magnitude(b)))

\* (Tin - Ck) / (Cl / Area + 1 / (eps * massFlow * cp))
C16_SourceOf(Tin, Ck, Cl, Area, EpsMdotCp) ==
    Div(Sub(Tin, Ck), Add(Div(Cl, Area), Div(One, EpsMdotCp)))

\* The heat source of the direct system's floor by that relation, from the
\* floor's coupling coefficients and area and the effectiveness term of the
\* last evaluation.
C16_SourceOfFloor ==
    C16_SourceOf(eval.RefrigTempIn,
                 CouplingCk(HB[FloorOf(DRink)], Construct[Surface[FloorOf(DRink)].Construction]),
                 CouplingCl(HB[FloorOf(DRink)], Construct[Surface[FloorOf(DRink)].Construction]),
                 Surface[FloorOf(DRink)].Area, dhx.Term)

\* C16 (as stated): after every evaluation with incoming flow above zero the
\* heat source of the rink floor is (Tin - Ck) / (Cl/Area + 1/(eps*m*cp)),
\* whatever heat transfer algorithm the floor is solved with.
C16_HeatSourceOfFloor ==
    (eval.Done /\ eval.Branch = "flow" /\ HasFloor(DRink))
    => Close(QRadSysSource[FloorOf(DRink)], C16_SourceOfFloor)

\* An evaluation with incoming flow has left the heat source of a floor
\* solved with finite differences at the zero it held before, the relation
\* giving a source below zero.
C16_SourceLeftAsItWas ==
    /\ eval.Done
    /\ eval.Branch = "flow"
    /\ HasFloor(DRink)
    /\ HeatTransferAlgorithm[FloorOf(DRink)] # HeatTransferModel_CTF
    /\ Gt(eval.RefrigMassFlow, Zero)
    /\ QRadSysSource[FloorOf(DRink)] = Zero
    /\ Lt(C16_SourceOfFloor, Zero)

\* The area of the floor the last pass of the indirect system's loop worked on.
C17_FloorArea == Surface[FloorPasses(IRink, 1)[botc.Floors]].Area

\* The outlet temperature a flow gives: the flow goes into the heat source
\* relation and the source into Tout = Tin - Q / (massFlow * cp).
C17_OutletOf(massFlow) ==
    Sub(botc.RefrigInTemp,
        Div(C16_SourceOf(botc.RefrigInTemp, botc.Ck, botc.Cl, C17_FloorArea,
                         Mul(Mul(botc.Eff, massFlow), botc.CpRef)),
            Mul(massFlow, botc.CpRef)))

\* A target some flow above zero reaches: it lies between the outlet
\* temperature of a vanishing flow, Tin - eps * (Tin - Ck), and the inlet's.
C17_Feasible ==
    /\ Gt(botc.Cl, Zero)
    /\ Gt(botc.RefrigInTemp, botc.Ck)
    /\ Lt(botc.Desired, botc.RefrigInTemp)
    /\ Gt(botc.Desired,
          Sub(botc.RefrigInTemp, Mul(botc.Eff, Sub(botc.RefrigInTemp, botc.Ck))))

\* Two temperatures within 0.05 K of each other.
C17_WithinTolerance(a, b) == Le(Magnitude(Sub(a, b)), R(5, -2))

\* A call of BOTC for an indirect system with a floor that returned a flow
\* above zero below the maximum for a feasible target.
C17_FlowForFeasibleTarget ==
    /\ botc.SystemType = IndirectSystem
    /\ botc.Floors > 0
    /\ C17_Feasible
    /\ Gt(botc.Req, Zero)
    /\ Lt(botc.Req, botc.Max)

\* C17 (as stated): the flow BOTC returns for a feasible target, put into the
\* heat source relation and then into the outlet temperature relation, gives
\* the target outlet temperature RefrigOutTempDesired again.
C17_RoundTripReachesTarget ==
    C17_FlowForFeasibleTarget
    => C17_WithinTolerance(C17_OutletOf(botc.Req), botc.Desired)

\* BOTC returned a flow for a feasible target of 0 C whose outlet temperature
\* is more than 1 K away from the target.
C17_RoundTripOffTarget ==
    /\ C17_FlowForFeasibleTarget
    /\ ~botc.TargetMet
    /\ botc.Req = botc.Candidate
    /\ botc.Desired = Zero
    /\ Gt(Magnitude(Sub(C17_OutletOf(botc.Req), botc.Desired)), One)

\* C18 (as stated): every evaluation of a direct system whose refrigerant
\* inlet node is 0 ends in the fatal error, whatever the availability
\* schedule, and no flow has been requested from the plant before it.
C18_UnsetInletNodeIsFatal ==
    (eval.Done /\ DRink.ColdRefrigInNode = 0) => (fatal /\ ActuatorCalls = <<>>)

\* An evaluation of a system with inlet node 0 while the schedule is off has
\* ended without the fatal error, a flow having been requested for node 0.
C18_UnsetNodePassesWhenOff ==
    /\ eval.Done
    /\ DRink.ColdRefrigInNode = 0
    /\ Le(SchedValue, Zero)
    /\ ~eval.Available
    /\ ~fatal
    /\ Len(ActuatorCalls) = 1

\* The control type keyword of the input names neither control mode.
C19_UnrecognizedKeyword ==
    Alphas[5] \notin {"RefrigOutletTemperature", "IceSurfaceTemperature"}

C20_Tabulated == {R(c, 0) : c \in 25 .. 30}

\* C20 (as stated): the concentration of the indirect system is a tabulated
\* one once the input is read, and CalcIRinkHXEffectTerm is never given a
\* concentration below 25 or one without a column of its own.
C20_ConcentrationOnGrid ==
    /\ IRink.Concentration \in C20_Tabulated
    /\ hx.RefrigType # 0 => hx.Given \in C20_Tabulated

\* CalcIRinkHXEffectTerm has been given a concentration of 24%, below every
\* column of the tables, and has read the 27% columns of ethylene glycol.
C20_BelowGridReads27Column ==
    /\ hx.RefrigType = EG
    /\ hx.Given = R(24, 0)
    /\ IRink.Concentration = R(24, 0)
    /\ hx.Column = 27
    /\ hx.Props = C10_PropertiesOfColumn(EG, 27, hx.Temperature)

\* The resolver a control type selects.
C21_ResolverOf(ControlType) ==
    IF ControlType = BrineOutletTempControl THEN "BOTC" ELSE "STC"

\* C21: the control type of the direct system is one of the two modes once
\* the input is read, and an evaluation of the available system has called
\* the resolver of that mode once and no other.
C21_ControlModeExclusive ==
    /\ DRink.ControlType \in {SurfaceTempControl, BrineOutletTempControl}
    /\ (eval.Done /\ eval.Available)
       => /\ Len(ResolverCalls) = 1
          /\ ResolverCalls[1].fn = C21_ResolverOf(DRink.ControlType)
          /\ eval.Resolver = ResolverCalls[1].fn

\* An available system under outlet temperature control has been evaluated
\* with flow at its inlet: BOTC was called, STC was not.
C21_OnlyBOTCCalled ==
    /\ eval.Done
    /\ eval.Available
    /\ eval.Branch = "flow"
    /\ DRink.ControlType = BrineOutletTempControl
    /\ Len(ResolverCalls) = 1
    /\ ResolverCalls[1].fn = "BOTC"
    /\ \A i \in DOMAIN calls : calls[i].fn # "STC"

\* The flows handed to the plant, in order.
C22_Flows(log) ==
    [i \in DOMAIN SelectSeq(log, LAMBDA c : c.fn = "SetComponentFlowRate") |->
        SelectSeq(log, LAMBDA c : c.fn = "SetComponentFlowRate")[i].arg]

\* What an evaluation of the direct system under the present configuration
\* and inputs commands and leaves as the floor's heat source, after a history
\* that left the heat sources Q and the unassigned locals mdot and garbage.
C22_Outcome(Q, mdot, garbage) ==
    IF Le(SchedValue, Zero)
    THEN [Flows  |-> C22_Flows(SetComponentFlowRate(<<>>, mdot)),
          Source |-> SetSource(Q, FloorOf(DRink), Zero)[FloorOf(DRink)]]
    ELSE [Flows  |-> C22_Flows(CalcDirectIndoorIceRinkComps(DRink, Node, HB, Q,
                                   NotOperating, FloorOf(DRink), garbage, <<>>).calls),
          Source |-> CalcDirectIndoorIceRinkComps(DRink, Node, HB, Q, NotOperating,
                                   FloorOf(DRink), garbage, <<>>).Q[FloorOf(DRink)]]

\* Histories of the heat sources: the surfaces other than the floor hold
\* any of three values.
C22_Histories ==
    {[s \in Surfaces |-> IF s = FloorOf(DRink) THEN QRadSysSource[s] ELSE v] :
        v \in {Zero, R(5, 0), R(-5, 0)}}

\* An evaluated system with a floor and an inlet node.
C22_Evaluated == eval.Done /\ HasFloor(DRink) /\ DRink.ColdRefrigInNode # 0

\* The evaluation came out as it comes out after the history Q, mdot, garbage.
C22_SameAfter(Q, mdot, garbage) ==
    C22_Outcome(Q, mdot, garbage)
        = [Flows |-> C22_Flows(calls), Source |-> QRadSysSource[FloorOf(DRink)]]

\* C22 (as stated): the commanded flow and the floor's heat source of an
\* evaluation are those of the same configuration and inputs after any other
\* history: whatever ran before and whatever the other surfaces hold.
C22_IndependentOfHistory ==
    C22_Evaluated
    => \A Q \in C22_Histories, mdot \in UninitializedReal, garbage \in UninitializedReal :
         C22_SameAfter(Q, mdot, garbage)

\* An evaluation with the schedule off has commanded a flow of 7 kg/s, and
\* the same evaluation commands -3 kg/s when the unassigned local holds -3.
C22_FlowFollowsLeftover ==
    /\ C22_Evaluated
    /\ ~eval.Available
    /\ C22_Flows(calls) = <<R(7, 0)>>
    /\ C22_Outcome(QRadSysSource, R(-3, 0), Zero).Flows = <<R(-3, 0)>>
    /\ C22_SameAfter(QRadSysSource, R(7, 0), Zero)

\* C23 (as stated): after an evaluation that commanded a flow, the system's
\* RefrigMassFlowRate is the flow last handed to the plant in it.
C23_LastCommandedFlowStored ==
    (eval.Done /\ ActuatorCalls # <<>>)
    => DRink.RefrigMassFlowRate = ActuatorCalls[Len(ActuatorCalls)].arg

\* An evaluation with the schedule off has handed a flow other than zero to
\* the plant, and the system's RefrigMassFlowRate is the zero it was.
C23_CommandedFlowNotStored ==
    /\ eval.Done
    /\ ~eval.Available
    /\ eval.Branch = "off"
    /\ Len(ActuatorCalls) = 1
    /\ ActuatorCalls[1].arg # Zero
    /\ DRink.RefrigMassFlowRate = Zero

\* The evaluation called CalcDirectIndoorIceRinkComps: it took one of its
\* branches, "off" being the branch of an evaluation that did not call it.
C26_CompsRan == eval.Branch # "off"

\* C26 (as stated): an evaluation under an availability schedule at or below
\* zero leaves the floor's heat source at zero, requests a flow of exactly
\* zero, and runs neither a resolver nor CalcDirectIndoorIceRinkComps.
C26_OffRequestsZeroFlow ==
    (eval.Done /\ Le(SchedValue, Zero) /\ HasFloor(DRink))
    => /\ QRadSysSource[FloorOf(DRink)] = Zero
       /\ \A i \in DOMAIN ActuatorCalls : ActuatorCalls[i].arg = Zero
       /\ ResolverCalls = <<>>
       /\ ~C26_CompsRan

\* An evaluation under a schedule at zero has left the floor's heat source at
\* zero and run neither resolver nor CalcDirectIndoorIceRinkComps, and the
\* flow it requested is -3 kg/s.
C26_OffRequestsLeftoverFlow ==
    /\ eval.Done
    /\ Le(SchedValue, Zero)
    /\ HasFloor(DRink)
    /\ QRadSysSource[FloorOf(DRink)] = Zero
    /\ ResolverCalls = <<>>
    /\ ~C26_CompsRan
    /\ ActuatorCalls = <<Call("SetComponentFlowRate", R(-3, 0), R(-3, 0))>>

\* The averaging records of a surface.
C27_Records == {"QRadSysSrcAvg", "LastQRadSysSrc", "LastSysTimeElapsed", "LastTimeStepSys"}

\* The step is a call of InitIndoorIceRink that ran its time step reset to
\* the end.
C27_ResetCall == ~fatal' /\ last'.Done /\ last'.TimeStepReset

\* The call has left the four records of the floor of its system at zero.
C27_FloorRecordsZero ==
    \A rec \in C27_Records :
      /\ FloorOf(SystemOf(last'.SystemType)) \in DOMAIN avg'[rec]
      /\ avg'[rec][FloorOf(SystemOf(last'.SystemType))] = Zero

\* The call has left the records of the other surfaces as they were, unless
\* its other blocks dimensioned or zeroed the arrays as a whole.
C27_OtherRecordsKept ==
    (~flags.FirstTimeInit /\ ~last'.GeneralReset)
    => \A rec \in C27_Records :
         \A s \in DOMAIN avg[rec] \ {FloorOf(SystemOf(last'.SystemType))} :
           avg'[rec][s] = avg[rec][s]

\* C27 (as stated): a call of InitIndoorIceRink with BeginTimeStepFlag and
\* FirstHVACIteration both true resets the four averaging records of the floor
\* of its system to zero, a system of one surface included, and changes the
\* records of no other surface.
C27_TimeStepResetOfFloorOnly ==
    [][C27_ResetCall => (C27_FloorRecordsZero /\ C27_OtherRecordsKept)]_vars

\* The time step reset of a direct system of one surface, its floor, has run:
\* the floor's QRadSysSrcAvg holds the average it held, that of another
\* surface was zeroed in its place, and LastTimeStepSys has no element to reset.
C27_ResetMissedFloor ==
    /\ ~fatal
    /\ last.Done
    /\ last.TimeStepReset
    /\ ~last.GeneralReset
    /\ last.SystemType = DirectSystem
    /\ DRink.NumOfSurfaces = 1
    /\ last.SurfNum2 \in Surfaces \ {FloorOf(DRink)}
    /\ avg.QRadSysSrcAvg[FloorOf(DRink)] = AveragedSource
    /\ avg.QRadSysSrcAvg[last.SurfNum2] = Zero
    /\ avg.LastTimeStepSys = <<>>

\* The system types InitIndoorIceRink is called for.
C28_SystemTypes == {DirectSystem, IndirectSystem}

\* ScanPlantLoopsForObject has been called at most once for each system, and
\* a call that made it found PlantLoop allocated and the inlet node set.
C28_ScannedOnceWhenAllocated ==
    /\ \A s \in C28_SystemTypes : last.Scans[s] <= 1
    /\ (last.Done /\ last.Scanned)
       => (plant.Allocated /\ SystemOf(last.SystemType).ColdRefrigInNode > 0)

\* While PlantLoop is not allocated and the model has a plant, the scan flags
\* that the first call set are set.
C28_FlagWaitsForPlant ==
    (~flags.MyOneTimeFlag /\ ~plant.Allocated /\ plant.AnyPlantInModel)
    => \A s \in C28_SystemTypes : flags[ScanFlagOf(s)]

\* A scan flag that is clear after the first call is clear after the step.
C28_ClearedFlagStaysClear ==
    \A s \in C28_SystemTypes :
      (~flags.MyOneTimeFlag /\ ~flags[ScanFlagOf(s)]) => ~flags'[ScanFlagOf(s)]

\* C28: over the calls of InitIndoorIceRink, ScanPlantLoopsForObject is called
\* at most once per system and only with PlantLoop allocated and the inlet
\* node above zero; a scan flag once cleared is never set again; and while
\* PlantLoop is unallocated in a model with a plant the flag stays set.
C28_PlantScanOnce ==
    /\ [](C28_ScannedOnceWhenAllocated /\ C28_FlagWaitsForPlant)
    /\ [][C28_ClearedFlagStaysClear]_vars

\* The direct system was scanned once, and a later call for it, with its scan
\* flag clear, has not scanned again.
C28_NoSecondScan ==
    /\ ~fatal
    /\ last.Done
    /\ last.SystemType = DirectSystem
    /\ ~last.Scanned
    /\ last.Scans[DirectSystem] = 1
    /\ ~flags.MyPlantScanFlagDRink
    /\ plant.Allocated

\* The call was the first of a run of consecutive calls with BeginEnvrnFlag
\* true: the call before it, if any, had the flag false.
C29_FirstOfRun == last.BeginEnvrnFlag /\ ~last.PrevBeginEnvrnFlag

\* The module-wide reset ran in the last call, a call that returned, exactly
\* when that call was the first of its run, and each system's report fields
\* have been zeroed at most once in the run.
C29_ResetOncePerRun ==
    /\ (last.Done /\ ~fatal) => (last.GeneralReset <=> C29_FirstOfRun)
    /\ \A s \in C28_SystemTypes : last.ResetsInRun[s] <= 1

\* The step that sets MyEnvrnFlagGeneral again is a call with BeginEnvrnFlag false.
C29_RearmedByCallOutsideEnvrn ==
    (~flags.MyEnvrnFlagGeneral /\ flags'.MyEnvrnFlagGeneral)
    => (last'.Done /\ ~last'.BeginEnvrnFlag)

\* C29: over the calls of InitIndoorIceRink that return, the module-wide reset
\* of the averaging records runs exactly on the first call of each maximal run of
\* consecutive calls with BeginEnvrnFlag true and is re-armed only by a call
\* with BeginEnvrnFlag false, and the report fields of a system are zeroed at
\* most once per run.
C29_EnvrnResetOncePerEnvrn ==
    /\ []C29_ResetOncePerRun
    /\ [][C29_RearmedByCallOutsideEnvrn]_vars

\* A second call of a run with BeginEnvrnFlag true, for the direct system
\* whose report fields the run has zeroed once: it ran neither reset.
C29_SecondCallOfRunResetsNothing ==
    /\ ~fatal
    /\ last.Done
    /\ last.SystemType = DirectSystem
    /\ last.BeginEnvrnFlag
    /\ last.PrevBeginEnvrnFlag
    /\ ~last.GeneralReset
    /\ ~last.SystemReset
    /\ last.ResetsInRun[DirectSystem] = 1
    /\ ~flags.MyEnvrnFlagGeneral
    /\ ~flags.MyEnvrnFlagDRink

\* C24: no step of InitIndoorIceRink, CalcDirectIndoorIceRinkSys with the
\* CalcDirectIndoorIceRinkComps call it makes, or BOTC changes the coupling
\* coefficients of a surface (the RadSysTiHB and RadSysToHB coefficients and
\* CTFTsrcConstPart); the CTF source terms of the constructions are fixed.
C24_CoefficientsOnlyRead == [][HB' = HB]_vars

\* InitIndoorIceRink has been called and an evaluation under outlet
\* temperature control has called BOTC and CalcDirectIndoorIceRinkComps with
\* flow at the inlet, and every surface holds the coefficients it held.
C24_CoefficientsAfterCalls ==
    /\ last.Done
    /\ eval.Done
    /\ eval.Available
    /\ eval.Branch = "flow"
    /\ eval.Resolver = "BOTC"
    /\ botc # NoBOTC
    /\ HB = [s \in Surfaces |-> HBWarmSlab]

====
